---- MODULE Spec2Model ----
(***************************************************************************)
(* Model of class_cli: the command registry (Method / CLI_Methods), the    *)
(* per-instance compilation of commands, the argument parser built on      *)
(* argparse, and the session router (cli_session).                         *)
(***************************************************************************)
EXTENDS Integers, Sequences, FiniteSets, TLC

(***************************************************************************)
(* Bounds of the model.                                                    *)
(***************************************************************************)
MaxDecls == 2

MaxTokens == 3

(***************************************************************************)
(* Python values.  Every value is a record of the same shape so that any   *)
(* two values can be compared: t is the Python type.                       *)
(***************************************************************************)
PyNone == [t |-> "none", i |-> 0, s |-> "", pos |-> <<>>, kw |-> {}]

PyInt(n) == [t |-> "int", i |-> n, s |-> "", pos |-> <<>>, kw |-> {}]

PyStr(x) == [t |-> "str", i |-> 0, s |-> x, pos |-> <<>>, kw |-> {}]

\* the pair (args, kwargs) a collecting body returns: the positional values in
\* order and the keyword mapping as its set of (key, value) pairs
PyCall(pos, kw) == [t |-> "call", i |-> 0, s |-> "", pos |-> pos, kw |-> kw]

\* Optional values: None is the empty sequence, a present value x is <<x>>.
None == <<>>

Some(x) == <<x>>

IsNone(o) == o = <<>>

\* the element of a one-element set: { e(x) : x \in {v} } names the value v
\* once, as a local variable of the code does
Only(S) == CHOOSE x \in S : TRUE

\* The decimal numerals the model knows, as (text, number) pairs.
Numerals == { <<"0", 0>>, <<"5", 5>>, <<"11", 11>>, <<"12", 12>>, <<"13", 13>>, <<"22", 22>> }

\* str(n) for an int n.
IntText(n) == (CHOOSE p \in Numerals : p[2] = n)[1]

IsNumeral(e) == \E p \in Numerals : p[1] = e

\* int(e) for a numeral e
ParseInt(e) == (CHOOSE p \in Numerals : p[1] = e)[2]

\* str(v): the textual form of a Python value.
Str(v) == IF v.t = "int" THEN IntText(v.i) ELSE IF v.t = "none" THEN "None" ELSE v.s

(***************************************************************************)
(* Strings.  The texts that contain '=' are listed with the value of       *)
(* text.split('='); every other text splits into itself.                   *)
(***************************************************************************)
WithEquals ==
    { <<"a=1", <<"a", "1">> >>, <<"a=2", <<"a", "2">> >>, <<"b=2", <<"b", "2">> >>,
      <<"a=b=c", <<"a", "b", "c">> >> }

\* e.split('=')
Split(e) ==
    IF \E p \in WithEquals : p[1] = e
      THEN (CHOOSE p \in WithEquals : p[1] = e)[2]
      ELSE <<e>>

\* value.upper() on the texts the programs of the model pass around
Upper(v) ==
    IF v.t # "str" THEN v
    ELSE IF v.s = "x" THEN PyStr("X")
    ELSE IF v.s = "bad" THEN PyStr("BAD")
    ELSE v

\* CMD in _cli_prompt.py
CMD_END == {"q", "quit", "exit"}

CMD_READ == {".r", ".read"}

CMD_SETTING == {".set", ".setting"}

CMD_HELP == {"-h", "--help"}

FILE_COMMENT == "#"

(***************************************************************************)
(* Annotations of parameters and inspect.getfullargspec records.           *)
(***************************************************************************)
\* the type of a parameter without annotation (add_method_inspection)
AnnStr == [kind |-> "str", options |-> <<>>, values |-> <<>>]

AnnInt == [kind |-> "int", options |-> <<>>, values |-> <<>>]

\* a sequence annotation, e.g.  value:[11, 12, 22]
AnnSeq(opts) == [kind |-> "seq", options |-> opts, values |-> <<>>]

\* a mapping annotation, e.g.  value:{11:"x", 12:"y"}: keys in insertion order and their values
AnnDict(ks, vs) == [kind |-> "dict", options |-> ks, values |-> vs]

\* FullArgSpec(args, varargs, varkw, defaults, annotations); annotations is the
\* ordered dict of (parameter, annotation) pairs.
ArgSpec(args, defaults, varargs, varkw, annotations) ==
    [args |-> args, defaults |-> defaults, varargs |-> varargs, varkw |-> varkw, annotations |-> annotations]

\* a decorated function: its __name__, its signature and what its body does
Func(name, spec, body) == [name |-> name, spec |-> spec, body |-> body]

\* the choice annotations of the test programs
Choices == <<PyInt(11), PyInt(12), PyInt(22)>>

ChoiceValues == <<PyStr("eleven"), PyStr("twelve"), PyStr("twentytwo")>>

\* a sequence whose members 11 and "11" have the same textual form
Members == <<PyInt(11), PyStr("11"), PyInt(12), PyStr("x")>>

(***************************************************************************)
(* The functions a program can decorate.                                   *)
(*   1..9   def foo with the signatures (self, a), (self, b), (self, a=0), *)
(*          (self, a, *x), (self, a, *y), (self, a, **k), (self, a, **m),  *)
(*          (self, a) once more (another function), (self)                 *)
(*   10,11  def bar(self, a), def bar(self)                                *)
(*   12..17 the Tester class of Test_Settings / Test_Methods: two           *)
(*          validations and the execution of the Setting set_value, the    *)
(*          Setting set_constant, the validation and the execution of op   *)
(*   18..28 the Tester class of Test_Parser / Test_Methods                 *)
(*   29..33 the Delegates of Test_Delegate and Test_Compilation: return    *)
(*          self, return Tester() twice, a Delegate with a parameter, a    *)
(*          Delegate that returns None                                     *)
(*   34..38 def typed(self, a, b) with the annotations a:int; b:int; none; *)
(*          a:int, b:[11, 12, 22]; a:[11, 12, 22], b:int                   *)
(***************************************************************************)
Functions ==
    << Func("foo", ArgSpec(<<"self", "a">>, None, None, None, <<>>), "pass"),
       Func("foo", ArgSpec(<<"self", "b">>, None, None, None, <<>>), "pass"),
       Func("foo", ArgSpec(<<"self", "a">>, Some(<<PyInt(0)>>), None, None, <<>>), "pass"),
       Func("foo", ArgSpec(<<"self", "a">>, None, Some("x"), None, <<>>), "pass"),
       Func("foo", ArgSpec(<<"self", "a">>, None, Some("y"), None, <<>>), "pass"),
       Func("foo", ArgSpec(<<"self", "a">>, None, None, Some("k"), <<>>), "pass"),
       Func("foo", ArgSpec(<<"self", "a">>, None, None, Some("m"), <<>>), "pass"),
       Func("foo", ArgSpec(<<"self", "a">>, None, None, None, <<>>), "pass"),
       Func("foo", ArgSpec(<<"self">>, None, None, None, <<>>), "pass"),
       Func("bar", ArgSpec(<<"self", "a">>, None, None, None, <<>>), "pass"),
       Func("bar", ArgSpec(<<"self">>, None, None, None, <<>>), "pass"),
       Func("set_value", ArgSpec(<<"self", "value">>, None, None, None, <<>>), "guard"),
       Func("set_value", ArgSpec(<<"self", "value">>, None, None, None, <<>>), "reject"),
       Func("set_value", ArgSpec(<<"self", "value">>, None, None, None, <<>>), "upper"),
       Func("set_constant", ArgSpec(<<"self", "value">>, None, None, None, <<>>), "echo"),
       Func("op", ArgSpec(<<"self", "value">>, None, None, None, <<>>), "guard"),
       Func("op", ArgSpec(<<"self", "value">>, None, None, None, <<>>), "store"),
       Func("oper0", ArgSpec(<<"self">>, None, None, None, <<>>), "collect"),
       Func("oper1", ArgSpec(<<"self", "value">>, None, None, None, <<>>), "collect"),
       Func("oper2", ArgSpec(<<"self", "a", "b">>, None, None, None, <<>>), "collect"),
       Func("oper_type", ArgSpec(<<"self", "value">>, None, None, None, << <<"value", AnnInt>> >>), "collect"),
       Func("oper_dict", ArgSpec(<<"self", "value">>, None, None, None,
                                 << <<"value", AnnDict(Choices, ChoiceValues)>> >>), "collect"),
       Func("oper_iterable", ArgSpec(<<"self", "value">>, None, None, None,
                                     << <<"value", AnnSeq(Members)>> >>), "collect"),
       Func("oper_args", ArgSpec(<<"self">>, None, Some("args"), None, <<>>), "collect"),
       Func("oper_kwargs", ArgSpec(<<"self">>, None, None, Some("kwargs"), <<>>), "collect"),
       Func("oper_both", ArgSpec(<<"self">>, None, Some("args"), Some("kwargs"), <<>>), "collect"),
       Func("oper_all", ArgSpec(<<"self", "value">>, None, Some("args"), Some("kwargs"),
                                << <<"value", AnnInt>> >>), "collect"),
       Func("set_dict", ArgSpec(<<"self", "value">>, None, None, None,
                                << <<"value", AnnDict(Choices, ChoiceValues)>> >>), "echo"),
       Func("del_self", ArgSpec(<<"self">>, None, None, None, <<>>), "self"),
       Func("del_new", ArgSpec(<<"self">>, None, None, None, <<>>), "new"),
       Func("del_discard", ArgSpec(<<"self">>, None, None, None, <<>>), "new"),
       Func("delegate", ArgSpec(<<"self", "a">>, None, None, None, <<>>), "self"),
       Func("del_none", ArgSpec(<<"self">>, None, None, None, <<>>), "none"),
       Func("typed", ArgSpec(<<"self", "a", "b">>, None, None, None, << <<"a", AnnInt>> >>), "pass"),
       Func("typed", ArgSpec(<<"self", "a", "b">>, None, None, None, << <<"b", AnnInt>> >>), "pass"),
       Func("typed", ArgSpec(<<"self", "a", "b">>, None, None, None, <<>>), "pass"),
       Func("typed", ArgSpec(<<"self", "a", "b">>, None, None, None,
                             << <<"a", AnnInt>>, <<"b", AnnSeq(Choices)>> >>), "pass"),
       Func("typed", ArgSpec(<<"self", "a", "b">>, None, None, None,
                             << <<"a", AnnSeq(Choices)>>, <<"b", AnnInt>> >>), "pass"),
       Func("oper", ArgSpec(<<"self", "a", "b">>, None, None, None,
                            << <<"b", AnnSeq(<<PyStr("aa"), PyStr("ab"), PyStr("bb")>>)>> >>), "pass"),
       Func("oper_no_args", ArgSpec(<<"self">>, None, None, None, <<>>), "pass"),
       Func("set11", ArgSpec(<<"self", "a", "b">>, None, Some("args"), None,
                             << <<"a", AnnDict(Choices, <<PyStr(""), PyStr(""), PyStr("")>>)>> >>),
            "pass") >>

\* the functions the declaration phase draws from
DeclFuncs == 1..11

(***************************************************************************)
(* class Method (_cli_methods.py)                                          *)
(***************************************************************************)
\* the attributes dict of a Method: keys is the set of keys present
NoAttributes == [keys |-> {}, initial_value |-> PyNone, updates_value |-> TRUE, reuse |-> TRUE]

\* Method.__init__: no execution (0 stands for None), no validations
NewMethod(name) ==
    [name |-> name, execution |-> 0, type |-> "", validations |-> <<>>, attributes |-> NoAttributes]

\* setExecution without the check for an execution already set
setExecution_overwrite(m, execution, type) ==
    [raised |-> "", method |-> [m EXCEPT !.execution = execution, !.type = type]]

\* Method.setExecution: the outcome is the exception raised ("" for none) and the method afterwards
setExecution(m, execution, type) ==
    IF m.execution # 0
      THEN [raised |-> "CompilationException", method |-> m]
      ELSE [raised |-> "", method |-> [m EXCEPT !.execution = execution, !.type = type]]

\* Method.addValidation
addValidation(m, validation) ==
    IF \E k \in 1..Len(m.validations) : m.validations[k] = validation
      THEN m
      ELSE [m EXCEPT !.validations = Append(@, validation)]

\* getattr(spec, attribute) followed by the extractor of that attribute, as an
\* optional list: args and defaults are the lists themselves, annotations is
\* the list of the dict's values in key order, a variadic name is compared as
\* a string (same length and same characters), modelled as a one-element list.
SpecAttribute(spec, attribute) ==
    CASE attribute = "args" -> Some(spec.args)
      [] attribute = "defaults" -> spec.defaults
      [] attribute = "annotations" -> Some([k \in 1..Len(spec.annotations) |-> spec.annotations[k][2]])
      [] attribute = "varargs" -> IF IsNone(spec.varargs) THEN None ELSE Some(spec.varargs)
      [] attribute = "varkw" -> IF IsNone(spec.varkw) THEN None ELSE Some(spec.varkw)

\* the attributes compared by __check_preconditions, in its order
SpecAttributes == <<"args", "defaults", "annotations", "varargs", "varkw">>

\* compare_specs that accepts an attribute present on one side only and only
\* compares the lengths of the lists
compare_specs_lenient(spec1, spec2, attribute) ==
    LET a1 == SpecAttribute(spec1, attribute)
        a2 == SpecAttribute(spec2, attribute)
    IN  IF IsNone(a1) \/ IsNone(a2)
          THEN FALSE
          ELSE Len(a1[1]) # Len(a2[1])

\* compare_specs: TRUE when it raises InitializationException
compare_specs(spec1, spec2, attribute) ==
    LET a1 == SpecAttribute(spec1, attribute)
        a2 == SpecAttribute(spec2, attribute)
    IN  IF IsNone(a1) \/ IsNone(a2)
          THEN ~(IsNone(a1) /\ IsNone(a2))
          ELSE LET ls1 == a1[1]
                   ls2 == a2[1]
               IN  IF Len(ls1) # Len(ls2)
                     THEN TRUE
                     ELSE \E i \in 1..Len(ls1) : ls2[i] # ls1[i]

\* preconditions that accept a method without an execution
check_preconditions_unbound(m) ==
    IF m.execution = 0
      THEN ""
      ELSE IF \E v \in 1..Len(m.validations) : \E a \in 1..Len(SpecAttributes) :
                  compare_specs(Functions[m.execution].spec, Functions[m.validations[v]].spec, SpecAttributes[a])
             THEN "InitializationException"
             ELSE ""

\* Method.__check_preconditions: the exception it raises, "" for none
check_preconditions(m) ==
    IF m.execution = 0
      THEN "InitializationException"
      ELSE IF \E v \in 1..Len(m.validations) : \E a \in 1..Len(SpecAttributes) :
                  compare_specs(Functions[m.execution].spec, Functions[m.validations[v]].spec, SpecAttributes[a])
             THEN "InitializationException"
             ELSE ""

(***************************************************************************)
(* class CLI_Methods: the registry, an ordered dict of Method by name,     *)
(* kept as the sequence of its values in insertion order.                  *)
(***************************************************************************)
Has(ms, name) == \E k \in 1..Len(ms) : ms[k].name = name

IndexOf(ms, name) == CHOOSE k \in 1..Len(ms) : ms[k].name = name

HasExecution(ms, name) == Has(ms, name) /\ ms[IndexOf(ms, name)].execution # 0

\* CLI_Methods.__getitem__ creates the Method of a name on first access
GetItem(ms, name) == IF Has(ms, name) THEN ms ELSE Append(ms, NewMethod(name))

\* the attributes a decorator recorded for its next application (_record_attributes)
SettingAttributes(initial_value, updates_value) ==
    [keys |-> {"initial_value", "updates_value"}, initial_value |-> initial_value,
     updates_value |-> updates_value, reuse |-> TRUE]

DelegateAttributes(reuse) ==
    [keys |-> {"reuse"}, initial_value |-> PyNone, updates_value |-> TRUE, reuse |-> reuse]

\* MethodDecorator.__update_attributes: every recorded key is written into the
\* attributes of the method named like the function
update_attributes(ms, name, recorded) ==
    IF recorded.keys = {}
      THEN ms
      ELSE LET ms1 == GetItem(ms, name)
               k == IndexOf(ms1, name)
               old == ms1[k].attributes
               new == [keys |-> old.keys \cup recorded.keys,
                       initial_value |-> IF "initial_value" \in recorded.keys
                                           THEN recorded.initial_value ELSE old.initial_value,
                       updates_value |-> IF "updates_value" \in recorded.keys
                                           THEN recorded.updates_value ELSE old.updates_value,
                       reuse |-> IF "reuse" \in recorded.keys THEN recorded.reuse ELSE old.reuse]
           IN  [ms1 EXCEPT ![k].attributes = new]

\* _record_method of OperationDecorator, SettingDecorator and ValidationDecorator
record_method(ms, f, decorator) ==
    LET name == Functions[f].name
        ms1 == GetItem(ms, name)
        k == IndexOf(ms1, name)
    IN  IF decorator = "Validation"
          THEN [raised |-> "", methods |-> [ms1 EXCEPT ![k] = addValidation(@, f)]]
          ELSE LET r == setExecution(ms1[k], f, decorator)
               IN  [raised |-> r.raised, methods |-> [ms1 EXCEPT ![k] = r.method]]

\* MethodDecorator.__call__: __update_attributes, then __wrap_method
decorate(ms, f, decorator, recorded) ==
    record_method(update_attributes(ms, Functions[f].name, recorded), f, decorator)

\* a compilation that accepts any signature for a Delegate
check_delegate_unchecked(m) == ""

\* A Delegate takes no parameter besides self; checked when an instance is compiled.
check_delegate(m) ==
    IF m.type = "Delegate" /\ Len(Functions[m.execution].spec.args) > 1
      THEN "InitializationException"
      ELSE ""

\* Method._compile up to the point where it can raise
compile_method(m) ==
    IF check_preconditions(m) # "" THEN check_preconditions(m) ELSE check_delegate(m)

\* CLI_Methods._compile: the exception raised by the first method that fails to compile
compile(ms) ==
    IF \E k \in 1..Len(ms) : compile_method(ms[k]) # ""
      THEN compile_method(ms[CHOOSE k \in 1..Len(ms) :
                                 /\ compile_method(ms[k]) # ""
                                 /\ \A j \in 1..(k-1) : compile_method(ms[j]) = ""])
      ELSE ""

\* the names of the Settings of a registry
SettingNames(ms) == { ms[k].name : k \in { j \in 1..Len(ms) : ms[j].type = "Setting" } }

\* settings that start without a value
initial_settings_none(ms) == [n \in SettingNames(ms) |-> PyNone]

\* CLI_Methods._compile seeds the settings of the instance with the initial values
initial_settings(ms) == [n \in SettingNames(ms) |-> ms[IndexOf(ms, n)].attributes.initial_value]

(***************************************************************************)
(* Bodies of the decorated functions.  fld are the fields of the host      *)
(* instance (self._value, self._silenced), pos and kw the arguments after  *)
(* self.  The outcome says whether the body raised, what it returned and   *)
(* the fields afterwards.                                                  *)
(***************************************************************************)
FirstArg(pos) == IF Len(pos) > 0 THEN pos[1] ELSE PyNone

Effect(body, fld, pos, kw) ==
    CASE body = "pass" -> [raised |-> FALSE, ret |-> PyNone, field |-> fld]
      \* if not self._silenced: raise Exception()
      [] body = "guard" -> [raised |-> ~fld.silenced, ret |-> PyNone, field |-> fld]
      \* if value == "bad": raise Exception()
      [] body = "reject" -> [raised |-> FirstArg(pos) = PyStr("bad"), ret |-> PyNone, field |-> fld]
      \* return value
      [] body = "echo" -> [raised |-> FALSE, ret |-> FirstArg(pos), field |-> fld]
      \* return value.upper()
      [] body = "upper" -> [raised |-> FALSE, ret |-> Upper(FirstArg(pos)), field |-> fld]
      \* self._value = value; return value
      [] body = "store" -> [raised |-> FALSE, ret |-> FirstArg(pos),
                            field |-> [fld EXCEPT !.value = FirstArg(pos)]]
      \* return args, kwargs
      [] body = "collect" -> [raised |-> FALSE, ret |-> PyCall(pos, kw), field |-> fld]

\* the call f(self, *pos, **kw)
Body(f, fld, pos, kw) == Effect(Functions[f].body, fld, pos, kw)

(***************************************************************************)
(* The compiled command: `method` of Method._compile and the wrappers of   *)
(* CLI_Methods._compile.  trace lists the bodies that ran, in order.       *)
(***************************************************************************)
\* a body that ran, with the arguments it was given
Ran(kind, f, pos, kw) == [kind |-> kind, f |-> f, pos |-> pos, kw |-> kw]

RECURSIVE run_validations(_, _, _, _, _)
\* for validation in this._validations: validation(instance, *args, **kwargs)
run_validations(validations, fld, pos, kw, trace) ==
    IF validations = <<>>
      THEN [raised |-> FALSE, field |-> fld, trace |-> trace]
      ELSE Only({ IF b.raised
                    THEN [raised |-> TRUE, field |-> b.field,
                          trace |-> Append(trace, Ran("validation", Head(validations), pos, kw))]
                    ELSE run_validations(Tail(validations), b.field, pos, kw,
                                         Append(trace, Ran("validation", Head(validations), pos, kw)))
                  : b \in {Body(Head(validations), fld, pos, kw)} })

\* the execution body first, the validations after it
method_execution_first(m, fld, pos, kw) ==
    Only({ Only({ [raised |-> IF e.raised \/ v.raised THEN "Exception" ELSE "",
                   ret |-> IF e.raised \/ v.raised THEN PyNone ELSE e.ret,
                   field |-> v.field,
                   trace |-> v.trace]
                  : v \in {run_validations(m.validations, e.field, pos, kw,
                                           <<Ran("execution", m.execution, pos, kw)>>)} })
           : e \in {Body(m.execution, fld, pos, kw)} })

\* method(*args, **kwargs) of Method._compile
method(m, fld, pos, kw) ==
    Only({ IF v.raised
             THEN [raised |-> "Exception", ret |-> PyNone, field |-> v.field, trace |-> v.trace]
             ELSE Only({ [raised |-> IF e.raised THEN "Exception" ELSE "",
                          ret |-> IF e.raised THEN PyNone ELSE e.ret,
                          field |-> e.field,
                          trace |-> Append(v.trace, Ran("execution", m.execution, pos, kw))]
                         : e \in {Body(m.execution, v.field, pos, kw)} })
           : v \in {run_validations(m.validations, fld, pos, kw, <<>>)} })

\* a Setting wrapper that stores the result whatever updates_value says
wrapped_always_updates(ms, name, sets, fld, pos, kw) ==
    Only({ [raised |-> r.raised, ret |-> r.ret, field |-> r.field, trace |-> r.trace,
            settings |-> IF r.raised = "" /\ ms[IndexOf(ms, name)].type = "Setting"
                           THEN [sets EXCEPT ![name] = r.ret]
                           ELSE sets]
           : r \in {method(ms[IndexOf(ms, name)], fld, pos, kw)} })

\* setting(*args, **kwargs) / operation(*args, **kwargs) of CLI_Methods._compile:
\* sets are the settings of the instance
wrapped(ms, name, sets, fld, pos, kw) ==
    Only({ [raised |-> r.raised, ret |-> r.ret, field |-> r.field, trace |-> r.trace,
            settings |-> IF /\ r.raised = ""
                            /\ ms[IndexOf(ms, name)].type = "Setting"
                            /\ ms[IndexOf(ms, name)].attributes.updates_value
                           THEN [sets EXCEPT ![name] = r.ret]
                           ELSE sets]
           : r \in {method(ms[IndexOf(ms, name)], fld, pos, kw)} })

(***************************************************************************)
(* _cli_parser.py: inspection of a compiled method and the argparse parser *)
(* built from it.                                                          *)
(***************************************************************************)
AnnotationOf(spec, arg) ==
    IF \E k \in 1..Len(spec.annotations) : spec.annotations[k][1] = arg
      THEN Some(spec.annotations[CHOOSE k \in 1..Len(spec.annotations) : spec.annotations[k][1] = arg][2])
      ELSE None

\* add_method_inspection: defaults padded with NO_DEFAULT (None here) on the
\* left, types from the annotations (str without annotation)
add_method_inspection(spec) ==
    LET n == Len(spec.args)
        d == IF IsNone(spec.defaults) THEN <<>> ELSE spec.defaults[1]
    IN  [args |-> spec.args,
         defaults |-> [k \in 1..n |-> IF k <= n - Len(d) THEN None ELSE Some(d[k - (n - Len(d))])],
         types |-> [k \in 1..n |-> IF IsNone(AnnotationOf(spec, spec.args[k]))
                                     THEN AnnStr ELSE AnnotationOf(spec, spec.args[k])[1]],
         varargs |-> spec.varargs,
         varkw |-> spec.varkw]

\* IterableOptions.find: the first option whose textual form is the key
find(options, key) == CHOOSE k \in 1..Len(options) :
                          /\ Str(options[k]) = key
                          /\ \A j \in 1..(k-1) : Str(options[j]) # key

\* a DictOptions that yields the member found instead of the value stored under it
Coerce_member(type, key) ==
    CASE type.kind = "str" -> Some(PyStr(key))
      [] type.kind = "int" -> IF IsNumeral(key) THEN Some(PyInt(ParseInt(key))) ELSE None
      [] type.kind \in {"seq", "dict"} ->
           IF ~ \E k \in 1..Len(type.options) : Str(type.options[k]) = key
             THEN None
             ELSE Some(type.options[find(type.options, key)])

\* type(token) as argparse applies it: None when the conversion raises.
\* str is the identity, int parses a numeral, IterableOptions.__call__ yields
\* the member found, DictOptions the value stored under it.
Coerce(type, key) ==
    CASE type.kind = "str" -> Some(PyStr(key))
      [] type.kind = "int" -> IF IsNumeral(key) THEN Some(PyInt(ParseInt(key))) ELSE None
      [] type.kind = "seq" ->
           IF ~ \E k \in 1..Len(type.options) : Str(type.options[k]) = key
             THEN None
             ELSE Some(type.options[find(type.options, key)])
      [] type.kind = "dict" ->
           IF ~ \E k \in 1..Len(type.options) : Str(type.options[k]) = key
             THEN None
             ELSE Some(type.values[find(type.options, key)])

\* the message of the exception the conversion raises, "" when it returns:
\* int() raises ValueError, IterableOptions.__call__ raises
\* TypeError("'{}' is not a valid option")
CoerceError(type, key) ==
    IF ~IsNone(Coerce(type, key)) THEN ""
    ELSE IF type.kind = "int" THEN "invalid literal for int()"
    ELSE "is not a valid option"

\* a sub-parser that ignores the tokens left over after the fixed parameters
parse_method_surplus(spec, toks) ==
    LET ins == add_method_inspection(spec)
        n == Len(ins.args) - 1
        optional(k) == \E j \in 1..k : ~IsNone(ins.defaults[j + 1])
        required == Cardinality({k \in 1..n : ~optional(k)})
        taken == IF Len(toks) < n THEN Len(toks) ELSE n
        rest == SubSeq(toks, taken + 1, Len(toks))
        conv(k) == Coerce(ins.types[k + 1], toks[k])
        exit == \/ \E k \in 1..Len(toks) : toks[k] \in CMD_HELP
                \/ Len(toks) < required
                \/ \E k \in 1..taken : IsNone(conv(k))
    IN  [exit |-> exit,
         values |-> IF exit THEN <<>>
                    ELSE [k \in 1..n |-> IF k <= taken THEN conv(k)[1] ELSE ins.defaults[k + 1][1]],
         varargs |-> IF IsNone(ins.varargs) THEN None ELSE Some(rest),
         varkw |-> IF IsNone(ins.varkw) THEN None
                   ELSE Some(IF IsNone(ins.varargs) THEN rest ELSE <<>>)]

\* The sub-parser of _create_method_parser applied to the tokens after the
\* command name.  Fixed parameters are positionals (nargs '?' from the first
\* default on), *args and **kwargs are positionals with nargs '*'.  argparse
\* matches positionals greedily from the left; exit is SystemExit (a help
\* flag, a missing or surplus token, a failed conversion).  Tokens are texts
\* that do not start with '-', except the help flags.
parse_method(spec, toks) ==
    LET ins == add_method_inspection(spec)
        n == Len(ins.args) - 1
        optional(k) == \E j \in 1..k : ~IsNone(ins.defaults[j + 1])
        required == Cardinality({k \in 1..n : ~optional(k)})
        taken == IF Len(toks) < n THEN Len(toks) ELSE n
        rest == SubSeq(toks, taken + 1, Len(toks))
        conv(k) == Coerce(ins.types[k + 1], toks[k])
        exit == \/ \E k \in 1..Len(toks) : toks[k] \in CMD_HELP
                \/ Len(toks) < required
                \/ rest # <<>> /\ IsNone(ins.varargs) /\ IsNone(ins.varkw)
                \/ \E k \in 1..taken : IsNone(conv(k))
    IN  [exit |-> exit,
         values |-> IF exit THEN <<>>
                    ELSE [k \in 1..n |-> IF k <= taken THEN conv(k)[1] ELSE ins.defaults[k + 1][1]],
         varargs |-> IF IsNone(ins.varargs) THEN None ELSE Some(rest),
         varkw |-> IF IsNone(ins.varkw) THEN None
                   ELSE Some(IF IsNone(ins.varargs) THEN rest ELSE <<>>)]

NoFlags == [exit |-> FALSE, values |-> <<>>, varargs |-> None, varkw |-> None]

ExitFlags == [exit |-> TRUE, values |-> <<>>, varargs |-> None, varkw |-> None]

SpecOf(ms, name) == Functions[ms[IndexOf(ms, name)].execution].spec

\* create_parser(...).parse_args(_input): one sub-parser per command that is
\* not a Setting, the settings-access tokens with one sub-parser per Setting
\* (only when there are Settings), and the file-read tokens with one or more
\* path tokens.
parse_args(ms, _input) ==
    LET settings == SettingNames(ms)
    IN  IF \E k \in 1..Len(_input) : _input[k] \in CMD_HELP THEN ExitFlags
        ELSE IF Has(ms, _input[1]) /\ _input[1] \notin settings
          THEN parse_method(SpecOf(ms, _input[1]), Tail(_input))
        ELSE IF _input[1] \in CMD_SETTING /\ settings # {}
          THEN IF Len(_input) = 1 THEN NoFlags
               ELSE IF _input[2] \in settings
                 THEN parse_method(SpecOf(ms, _input[2]), SubSeq(_input, 3, Len(_input)))
                 ELSE ExitFlags
        ELSE IF _input[1] \in CMD_READ
          THEN IF Len(_input) >= 2 THEN NoFlags ELSE ExitFlags
        ELSE ExitFlags

(***************************************************************************)
(* format_extra_arguments (_cli_prompt.py): varargs and varkw are the      *)
(* token lists argparse bound to *args and **kwargs, None when the command *)
(* does not declare them.                                                  *)
(***************************************************************************)
NonEmpty(e) == e # ""

\* the last value given for key k among the [key, value] pairs
LastValue(extras, k) ==
    extras[CHOOSE i \in 1..Len(extras) :
              /\ Len(extras[i]) = 2 /\ extras[i][1] = k
              /\ \A j \in (i+1)..Len(extras) : ~(Len(extras[j]) = 2 /\ extras[j][1] = k)][2]

\* a formatting that splits only the texts bound to **kwargs
format_extra_arguments_unsplit(varargs, varkw) ==
    LET plain == IF IsNone(varargs) THEN <<>> ELSE SelectSeq(varargs[1], NonEmpty)
        keyed == IF IsNone(varkw) THEN <<>> ELSE SelectSeq(varkw[1], NonEmpty)
        extras == [k \in 1..Len(plain) |-> <<plain[k]>>]
                  \o [k \in 1..Len(keyed) |-> Split(keyed[k])]
        IsOne(e) == Len(e) = 1
        ones == SelectSeq(extras, IsOne)
        keys == { extras[k][1] : k \in { j \in 1..Len(extras) : Len(extras[j]) = 2 } }
    IN  [args |-> [k \in 1..Len(ones) |-> ones[k][1]],
         kwargs |-> { <<key, LastValue(extras, key)>> : key \in keys }]

format_extra_arguments(varargs, varkw) ==
    LET extras0 == IF IsNone(varargs) THEN <<>> ELSE SelectSeq(varargs[1], NonEmpty)
        extras1 == IF IsNone(varkw) THEN extras0 ELSE SelectSeq(extras0 \o varkw[1], NonEmpty)
        extras == [k \in 1..Len(extras1) |-> IF IsNone(varkw) THEN <<extras1[k]>> ELSE Split(extras1[k])]
        IsOne(e) == Len(e) = 1
        ones == SelectSeq(extras, IsOne)
        keys == { extras[k][1] : k \in { j \in 1..Len(extras) : Len(extras[j]) = 2 } }
    IN  [args |-> [k \in 1..Len(ones) |-> ones[k][1]],
         kwargs |-> { <<key, LastValue(extras, key)>> : key \in keys }]

(***************************************************************************)
(* cli_session.__runArgs on a non-empty argument list whose first token is *)
(* neither a Delegate nor a file-read token.  st is the state of the       *)
(* instance and its session: settings, field, isFile, last_result.  The    *)
(* outcome has the returned flag (finish), the exception that escapes      *)
(* ("" for none), whether an error was reported through _error, the bodies *)
(* that ran and the state afterwards.                                      *)
(***************************************************************************)
Comments == {"#", "#note"}

Outcome(finish, raised, reported, trace, st) ==
    [finish |-> finish, raised |-> raised, reported |-> reported, trace |-> trace, st |-> st,
     name |-> "", pos |-> <<>>, kw |-> {}, hops |-> <<>>]

\* the outcome of a step that called the command keyword with pos and kw
Called(o, keyword, pos, kw) == [o EXCEPT !.name = keyword, !.pos = pos, !.kw = kw]

\* keyword = _input[1] if _input[0] in CMD.SETTING and len(_input) > 1 else _input[0]
Keyword(_input) ==
    IF _input[1] \in CMD_SETTING /\ Len(_input) > 1 THEN _input[2] ELSE _input[1]

\* args + _args and kwargs as the command receives them: the values argparse
\* bound to the fixed parameters, then the extra texts
Arguments(flags, extra) ==
    [pos |-> flags.values \o [k \in 1..Len(extra.args) |-> PyStr(extra.args[k])],
     kw |-> { <<p[1], PyStr(p[2])>> : p \in extra.kwargs }]

\* a router that lets the exception of the command escape
run_keyword_uncaught(ms, st, _input, flags) ==
    IF ~Has(ms, Keyword(_input))
      THEN Outcome(FALSE, "", FALSE, <<>>, st)
      ELSE Only({
             IF IsNone(flags.varargs) /\ Len(extra.args) > 0
               THEN Outcome(FALSE, "InputException", FALSE, <<>>, st)
             ELSE IF IsNone(flags.varkw) /\ extra.kwargs # {}
               THEN Outcome(FALSE, "InputException", FALSE, <<>>, st)
             ELSE Only({
                    Only({ Called(Outcome(FALSE, r.raised, FALSE, r.trace,
                                          [st EXCEPT !.settings = r.settings, !.field = r.field,
                                                     !.last_result = r.ret]),
                                  Keyword(_input), a.pos, a.kw)
                           : r \in {wrapped(ms, Keyword(_input), st.settings, st.field, a.pos, a.kw)} })
                    : a \in {Arguments(flags, extra)} })
             : extra \in {format_extra_arguments(flags.varargs, flags.varkw)} })

\* lines 157-189: the command named by the keyword is resolved and executed
run_keyword(ms, st, _input, flags) ==
    IF ~Has(ms, Keyword(_input))
      THEN Outcome(FALSE, "", FALSE, <<>>, st)
      ELSE Only({
             IF IsNone(flags.varargs) /\ Len(extra.args) > 0
               THEN Outcome(FALSE, "InputException", FALSE, <<>>, st)
             ELSE IF IsNone(flags.varkw) /\ extra.kwargs # {}
               THEN Outcome(FALSE, "InputException", FALSE, <<>>, st)
             ELSE Only({
                    Only({ IF r.raised # ""
                             THEN Called(Outcome(FALSE, "", TRUE, r.trace,
                                                 [st EXCEPT !.field = r.field, !.isFile = FALSE]),
                                         Keyword(_input), a.pos, a.kw)
                             ELSE Called(Outcome(FALSE, "", FALSE, r.trace,
                                                 [st EXCEPT !.settings = r.settings,
                                                            !.field = r.field,
                                                            !.last_result = r.ret]),
                                         Keyword(_input), a.pos, a.kw)
                           : r \in {wrapped(ms, Keyword(_input), st.settings, st.field, a.pos, a.kw)} })
                    : a \in {Arguments(flags, extra)} })
             : extra \in {format_extra_arguments(flags.varargs, flags.varkw)} })

\* lines 93-133: comment, end of session, query of a Setting, parse
route(ms, st, _input) ==
    IF _input[1] \in Comments THEN Outcome(FALSE, "", FALSE, <<>>, st)
    ELSE IF _input[1] \in CMD_END THEN Outcome(TRUE, "", FALSE, <<>>, st)
    ELSE IF Len(_input) = 2 /\ _input[1] \in CMD_SETTING /\ _input[2] \in DOMAIN st.settings
      THEN Outcome(FALSE, "", FALSE, <<>>, st)
    ELSE Only({ IF flags.exit
                  THEN IF \E k \in 1..Len(_input) : _input[k] \in CMD_HELP
                         THEN Outcome(FALSE, "", FALSE, <<>>, [st EXCEPT !.isFile = FALSE])
                         ELSE Outcome(FALSE, "InputException", FALSE, <<>>,
                                      [st EXCEPT !.isFile = FALSE])
                  ELSE run_keyword(ms, st, _input, flags)
                : flags \in {parse_args(ms, _input)} })

\* cli_session.__runArgs: self._last_result = None, then the routing
run_args(ms, st0, _input) == route(ms, [st0 EXCEPT !.last_result = PyNone], _input)

(***************************************************************************)
(* State.                                                                  *)
(***************************************************************************)
VARIABLES
    methods,      \* CLI.methods_dict: the registry of the decorated class
    decls,        \* number of decorator applications so far
    verbosity,    \* the verbosity given to Program(...): "None" silences the sessions
    built,        \* the instances constructed so far
    settings,     \* CLI_Methods._settings[instance]: Setting name -> stored value
    field,        \* host fields of each instance: _value and _silenced
    session,      \* cli_session of each instance: _silent, isFile, _last_result
    cache,        \* the sub-sessions memoized for each instance: (Delegate name, instance) pairs
    cli,          \* the CLI object: __linked, the class decorators Program returned, the classes wrapped
    last          \* the last operation and its outcome

vars == <<methods, decls, verbosity, built, settings, field, session, cache, cli, last>>

Instances == {1, 2}

\* fields after the __init__ of the test classes
InitField == [value |-> PyNone, silenced |-> FALSE]

\* cli_session.__init__
NewSession(silent) ==
    [silent |-> silent, isFile |-> FALSE, last_result |-> PyNone, parents |-> <<>>]

\* CLI.__init__: self.__linked = None; no class decorator handed out yet
NewProgram == [linked |-> None, decorators |-> 0, wrapped |-> {}]

NoLast ==
    [op |-> "", inst |-> 0, f |-> 0, name |-> "", input |-> <<>>, pos |-> <<>>, kw |-> {},
     raised |-> "", ret |-> PyNone, finish |-> FALSE, reported |-> FALSE, trace |-> <<>>,
     target |-> 0, fresh |-> FALSE, before |-> <<>>, silent |-> FALSE,
     end |-> "", message |-> "", lines |-> <<>>, loop |-> <<>>,
     files |-> <<>>, ran |-> <<>>, terminated |-> {}, hops |-> <<>>, completions |-> <<>>]

\* the state before any instance exists, for a registry ms
Start(ms, n, v) ==
    /\ methods = ms
    /\ decls = n
    /\ verbosity = v
    /\ built = {}
    /\ settings = [i \in Instances |-> <<>>]
    /\ field = [i \in Instances |-> InitField]
    /\ session = [i \in Instances |-> NewSession(FALSE)]
    /\ cache = [i \in Instances |-> {}]
    /\ cli = NewProgram
    /\ last = NoLast

\* CLI.__init__: an empty registry
Init == Start(<<>>, 0, "None")

(***************************************************************************)
(* Declaration: the method decorators of CLI applied to a function.        *)
(***************************************************************************)
Declare(f, decorator, recorded) ==
    /\ decls < MaxDecls
    /\ LET r == decorate(methods, f, decorator, recorded)
       IN  /\ methods' = r.methods
           /\ last' = [NoLast EXCEPT !.op = decorator, !.f = f, !.name = Functions[f].name,
                                     !.raised = r.raised]
    /\ decls' = decls + 1
    /\ UNCHANGED <<cli, verbosity, built, settings, field, session, cache>>

\* @cli.Operation()
Operation(f) == Declare(f, "Operation", NoAttributes)

\* @cli.Setting(initial_value, updates_value)
Setting(f, initial_value, updates_value) ==
    Declare(f, "Setting", SettingAttributes(initial_value, updates_value))

\* @cli.Validation()
Validation(f) == Declare(f, "Validation", NoAttributes)

\* @cli.Delegate(reuse)
Delegate(f, reuse) == Declare(f, "Delegate", DelegateAttributes(reuse))

(***************************************************************************)
(* Wrapper.__init__: constructing an instance compiles the registry for it *)
(* (CLI_Object.__init__ -> CLI._Compile) and creates its session.          *)
(***************************************************************************)
Construct(i) ==
    /\ i \notin built
    /\ LET raised == compile(methods)
       IN  /\ last' = [NoLast EXCEPT !.op = "Construct", !.inst = i, !.raised = raised]
           /\ IF raised = ""
                THEN /\ built' = built \cup {i}
                     /\ settings' = [settings EXCEPT ![i] = initial_settings(methods)]
                     /\ field' = [field EXCEPT ![i] = InitField]
                     /\ session' = [session EXCEPT ![i] = NewSession(verbosity = "None")]
                ELSE UNCHANGED <<cli, built, settings, field, session>>
    /\ UNCHANGED <<cli, methods, decls, verbosity, cache>>

\* the declaration phase of a class and the construction of an instance
Next ==
    \/ \E f \in DeclFuncs : Operation(f)
    \/ \E f \in DeclFuncs : \E u \in BOOLEAN : Setting(f, PyStr("init"), u)
    \/ \E f \in DeclFuncs : Validation(f)
    \/ \E f \in DeclFuncs : \E reuse \in BOOLEAN : Delegate(f, reuse)
    \/ Construct(1)

Spec == Init /\ [][Next]_vars

\* the functions that differ only in their annotations
AnnotatedFuncs == 34..38

\* the declaration phase of a class whose functions are annotated
NextAnnotated ==
    \/ \E f \in AnnotatedFuncs : Operation(f)
    \/ \E f \in AnnotatedFuncs : Validation(f)
    \/ Construct(1)

SpecAnnotated == Init /\ [][NextAnnotated]_vars

(***************************************************************************)
(* Use of a constructed instance.                                          *)
(***************************************************************************)
\* the state run_args works on
StateOf(i) ==
    [settings |-> settings[i], field |-> field[i], isFile |-> session[i].isFile,
     last_result |-> session[i].last_result]

\* the names of the Delegates of a registry (CLI_Methods.delegations)
DelegateNames(ms) == { ms[k].name : k \in { j \in 1..Len(ms) : ms[j].type = "Delegate" } }

\* a call that writes the settings of every instance
Call_shared(i, name, pos, kw) ==
    /\ i \in built
    /\ HasExecution(methods, name)
    /\ \E r \in {wrapped(methods, name, settings[i], field[i], pos, kw)} :
           /\ settings' = [j \in Instances |-> IF j \in built THEN r.settings ELSE settings[j]]
           /\ field' = [field EXCEPT ![i] = r.field]
           /\ last' = [NoLast EXCEPT !.op = "Call", !.inst = i, !.name = name, !.pos = pos,
                                     !.kw = kw, !.raised = r.raised, !.ret = r.ret,
                                     !.trace = r.trace]
    /\ UNCHANGED <<cli, methods, decls, verbosity, built, session, cache>>

\* instance.name(*pos, **kw): `redirected` of MethodDecorator.__wrap_method
\* calls the wrapped method compiled for the instance
Call(i, name, pos, kw) ==
    /\ i \in built
    /\ HasExecution(methods, name)
    /\ \E r \in {wrapped(methods, name, settings[i], field[i], pos, kw)} :
           /\ settings' = [settings EXCEPT ![i] = r.settings]
           /\ field' = [field EXCEPT ![i] = r.field]
           /\ last' = [NoLast EXCEPT !.op = "Call", !.inst = i, !.name = name, !.pos = pos,
                                     !.kw = kw, !.raised = r.raised, !.ret = r.ret,
                                     !.trace = r.trace]
    /\ UNCHANGED <<cli, methods, decls, verbosity, built, session, cache>>

\* the effect of cli_session.run(*args) with silent as the silence flag during
\* the call and restored as the flag afterwards
RunSession(i, _input, op, silent, restored) ==
    /\ i \in built
    /\ _input # <<>>
    /\ _input[1] \notin DelegateNames(methods)
    /\ _input[1] \notin CMD_READ
    /\ \E o \in {run_args(methods, StateOf(i), _input)} :
           /\ settings' = [settings EXCEPT ![i] = o.st.settings]
           /\ field' = [field EXCEPT ![i] = o.st.field]
           /\ session' = [session EXCEPT ![i] = [silent |-> restored, isFile |-> o.st.isFile,
                                                  last_result |-> o.st.last_result,
                                                  parents |-> session[i].parents]]
           /\ last' = [NoLast EXCEPT !.op = op, !.inst = i, !.input = _input, !.name = o.name,
                                     !.pos = o.pos, !.kw = o.kw, !.raised = o.raised,
                                     !.ret = IF o.raised = "" THEN o.st.last_result ELSE PyNone,
                                     !.finish = o.finish, !.reported = o.reported,
                                     !.trace = o.trace, !.silent = silent]
    /\ UNCHANGED <<cli, methods, decls, verbosity, built, cache>>

\* instance.CLI.run(*args) with arguments
Run(i, _input) == RunSession(i, _input, "Run", session[i].silent, session[i].silent)

\* an execute that leaves the session silent
Execute_silenced(i, _input) == RunSession(i, _input, "Execute", TRUE, TRUE)

\* instance.CLI.execute(*args): silent during the call, the flag restored afterwards
Execute(i, _input) == RunSession(i, _input, "Execute", TRUE, session[i].silent)

\* Tester._silence_exception of the tests: self._silenced = True
silence_exception(i) ==
    /\ i \in built
    /\ ~field[i].silenced
    /\ field' = [field EXCEPT ![i].silenced = TRUE]
    /\ last' = [NoLast EXCEPT !.op = "silence_exception", !.inst = i]
    /\ UNCHANGED <<cli, methods, decls, verbosity, built, settings, session, cache>>

(***************************************************************************)
(* The Tester class of Test_Settings / Test_Methods: a Setting guarded by  *)
(* two validations and an Operation guarded by one.                        *)
(***************************************************************************)
Decl(f, decorator, recorded) == [f |-> f, decorator |-> decorator, recorded |-> recorded]

RECURSIVE Declared(_, _)
\* the registry after the decorator applications of a class body
Declared(ms, program) ==
    IF program = <<>> THEN ms
    ELSE Declared(decorate(ms, Head(program).f, Head(program).decorator, Head(program).recorded).methods,
                  Tail(program))

TesterSettings(updates_value) ==
    << Decl(12, "Validation", NoAttributes),
       Decl(13, "Validation", NoAttributes),
       Decl(14, "Setting", SettingAttributes(PyStr("init"), updates_value)),
       Decl(16, "Validation", NoAttributes),
       Decl(17, "Operation", NoAttributes) >>

\* the class is declared, with either value of updates_value
InitRun ==
    \E u \in BOOLEAN : Start(Declared(<<>>, TesterSettings(u)), Len(TesterSettings(u)), "None")

CallValues == {PyStr("x"), PyStr("bad")}

\* the lines given to run
RunInputs ==
    { <<"op", "x">>, <<"op", "bad">>, <<"op">>,
      <<".setting", "set_value", "x">>, <<".set", "set_value", "bad">>,
      <<".setting", "set_value">>, <<"q">>, <<"nope">> }

\* the lines given to execute
ExecuteInputs ==
    { <<"op", "x">>, <<".setting", "set_value", "x">>, <<".set", "set_value", "bad">> }

NextRun ==
    \/ \E i \in Instances : Construct(i)
    \/ \E i \in Instances : \E name \in {"set_value", "op"} : \E v \in CallValues :
          Call(i, name, <<v>>, {})
    \/ \E i \in Instances : \E _input \in RunInputs : Run(i, _input)
    \/ \E i \in Instances : \E _input \in ExecuteInputs : Execute(i, _input)
    \/ \E i \in Instances : silence_exception(i)

SpecRun == InitRun /\ [][NextRun]_vars

(***************************************************************************)
(* The Tester classes of Test_Parser / Test_Methods: Operations with       *)
(* fixed, typed, choice and variadic parameters and a Setting with a       *)
(* choice parameter, used through run.                                     *)
(***************************************************************************)
TesterOperations ==
    [k \in 1..10 |-> Decl(17 + k, "Operation", NoAttributes)]
    \o << Decl(28, "Setting", SettingAttributes(PyNone, TRUE)) >>

InitResolve == Start(Declared(<<>>, TesterOperations), Len(TesterOperations), "None")

\* the token lists of at most n tokens over an alphabet
TokenLists(alphabet, n) == UNION { [1..m -> alphabet] : m \in 0..n }

\* the lines that start with one of the commands
Lines(commands, alphabet, n) ==
    { <<c>> \o t : c \in commands, t \in TokenLists(alphabet, n) }

ChoiceTokens == {"11", "12", "13", "22", "x", "5"}

ResolveInputs ==
    Lines({"oper0", "oper2"}, {"a"}, MaxTokens)
    \cup Lines({"oper1"}, {"a", "-h"}, MaxTokens)
    \cup Lines({"oper_type"}, {"5", "a"}, MaxTokens)
    \cup { <<c, t>> : c \in {"oper_dict", "oper_iterable"}, t \in ChoiceTokens }
    \cup { <<".setting", "set_dict">> \o t : t \in TokenLists({"11", "13"}, MaxTokens - 1) }
    \cup Lines({"oper_all"}, {"5", "a=1"}, MaxTokens)
    \cup Lines({"oper_both"}, {"a", "b", "a=1"}, MaxTokens)
    \cup { <<"nope">>, <<"nope", "-h">> }
    \cup { <<"oper1", "a=1">>, <<"oper_args", "a=1">>, <<"oper_args", "a", "a=1">>,
           <<"oper_kwargs", "a=1", "a=2">> }

NextResolve ==
    \/ Construct(1)
    \/ \E _input \in ResolveInputs : Run(1, _input)

SpecResolve == InitResolve /\ [][NextResolve]_vars

(***************************************************************************)
(* Delegation.  A Delegate yields the instance whose session takes the     *)
(* rest of the line (cli_session.__runArgs lines 115-122, _delegate,       *)
(* __shell).  The instances live in a pool; w is the state of all of them. *)
(***************************************************************************)
MaxHops == 2

\* the host, and for every hop a memoized and a discarded instance
Pool == 1..(2 * MaxHops + 1)

World == [built |-> built, settings |-> settings, field |-> field, session |-> session,
          cache |-> cache]

\* the state of instance i in w that run_args works on
StateIn(w, i) ==
    [settings |-> w.settings[i], field |-> w.field[i], isFile |-> w.session[i].isFile,
     last_result |-> w.session[i].last_result]

\* w after the session of instance i ended in state st
Put(w, i, st) ==
    [w EXCEPT !.settings[i] = st.settings, !.field[i] = st.field,
              !.session[i].isFile = st.isFile, !.session[i].last_result = st.last_result]

\* the instance Tester() builds next
Free(w) == CHOOSE j \in Pool \ w.built : \A k \in Pool \ w.built : j <= k

\* Tester() inside a Delegate body: Wrapper.__init__ for a new instance j
Built(w, ms, j, silent) ==
    [built |-> w.built \cup {j},
     settings |-> [w.settings EXCEPT ![j] = initial_settings(ms)],
     field |-> [w.field EXCEPT ![j] = InitField],
     session |-> [w.session EXCEPT ![j] = NewSession(silent)],
     cache |-> [w.cache EXCEPT ![j] = {}]]

\* the instance memoized for the Delegate name of instance i, 0 for none
Cached(w, i, name) ==
    IF \E p \in w.cache[i] : p[1] = name
      THEN (CHOOSE p \in w.cache[i] : p[1] = name)[2]
      ELSE 0

\* the outcome of a Delegate call: the exception raised, the instance yielded
\* (0 for none), whether it was built by this call, and the state afterwards
Yield(raised, target, fresh, w) == [raised |-> raised, target |-> target, fresh |-> fresh, w |-> w]

\* a Delegate that runs its execution on every call
call_delegate_uncached(ms, w, i, name, silent) ==
    Only({ IF v.raised
             THEN Yield("Exception", 0, FALSE, [w EXCEPT !.field[i] = v.field])
           ELSE IF Functions[ms[IndexOf(ms, name)].execution].body = "self"
             THEN Yield("", i, FALSE, w)
           ELSE IF Functions[ms[IndexOf(ms, name)].execution].body = "new"
             THEN Yield("", Free(w), TRUE, Built(w, ms, Free(w), silent))
           ELSE Yield("InternalException", 0, FALSE, w)
           : v \in {run_validations(ms[IndexOf(ms, name)].validations, w.field[i], <<>>, {}, <<>>)} })

\* instance.name() for a Delegate: the validations run, then the memoized
\* instance is yielded when reuse is set and there is one, otherwise the
\* execution runs and what it returns must be an instance with a CLI; with
\* reuse it is memoized
call_delegate(ms, w, i, name, silent) ==
    Only({ IF v.raised
             THEN Yield("Exception", 0, FALSE, [w EXCEPT !.field[i] = v.field])
           ELSE IF ms[IndexOf(ms, name)].attributes.reuse /\ Cached(w, i, name) # 0
             THEN Yield("", Cached(w, i, name), FALSE, w)
           ELSE Only({ IF y.raised = "" /\ ms[IndexOf(ms, name)].attributes.reuse
                         THEN [y EXCEPT !.w.cache[i] = @ \cup {<<name, y.target>>}]
                         ELSE y
                       : y \in {call_delegate_uncached(ms, w, i, name, silent)} })
           : v \in {run_validations(ms[IndexOf(ms, name)].validations, w.field[i], <<>>, {}, <<>>)} })

\* the outcome of a line: the state of all instances, the instance whose
\* session took the last part of the line, whether this line built it, its
\* state when it took that part, and the outcome there
Routed(w, inst, fresh, before, o) ==
    [w |-> w, inst |-> inst, fresh |-> fresh, before |-> before, o |-> o]

\* the name every session of the Tester class carries (cli_session.name)
SessionName == "Tester"

\* a sub-session that keeps its own chain of parents
delegated_parents_own(parents, name) == parents

\* self._parents + [self.name]
delegated_parents(parents, name) == Append(parents, name)

\* _silent and _parents of a session
Flags(s) == [silent |-> s.silent, parents |-> s.parents]

\* _delegate: self._silent = isSilent; self._parents = parents
Entered(w, target, isSilent, parents) ==
    [w EXCEPT !.session[target].silent = isSilent, !.session[target].parents = parents]

\* the finally clause of _delegate: the saved values are set back
Left(w, target, saved) ==
    [w EXCEPT !.session[target].silent = saved.silent, !.session[target].parents = saved.parents]

\* one delegation: the flags of the host when it handed the line over, and
\* those of the sub-session before, during and after _delegate
Hop(host, target, parent, before, during, after) ==
    [host |-> host, target |-> target, parent |-> Flags(parent), before |-> Flags(before),
     during |-> Flags(during), after |-> Flags(after)]

RECURSIVE run_line(_, _, _, _, _)
\* cli_session.__runArgs of instance i on a line.  A first token that names a
\* Delegate: the Delegate is called (an exception escapes), then
\* _delegate(parents, isSilent, *rest) sets the silence flag of the
\* sub-session to the host's and its parents to the host's followed by the
\* host's name, __shell(rest) runs the rest once, reports an exception when
\* the sub-session is not silent and lets it escape when it is, and both are
\* set back; the host returns False.
run_line(ms, w, i, _input, quiet) ==
    IF _input[1] \in DelegateNames(ms)
      THEN Only({
             IF c.raised # ""
               THEN Routed(c.w, i, FALSE, StateIn(w, i),
                           Outcome(FALSE, c.raised, FALSE, <<>>, StateIn(c.w, i)))
               ELSE Only({
                      Only({
                        Only({ Routed(done, sub.inst, sub.fresh \/ (sub.inst = c.target /\ c.fresh),
                                      sub.before,
                                      [sub.o EXCEPT !.finish = FALSE,
                                                    !.raised = IF w.session[i].silent THEN @ ELSE "",
                                                    !.reported = @ \/ (sub.o.raised # "" /\ ~w.session[i].silent),
                                                    !.hops = <<Hop(i, c.target, w.session[i],
                                                                   c.w.session[c.target],
                                                                   entered.session[c.target],
                                                                   done.session[c.target])>> \o @])
                               : done \in {Left(sub.w, c.target, c.w.session[c.target])} })
                        : sub \in {run_line(ms, entered, c.target, Tail(_input), quiet)} })
                      : entered \in {Entered(c.w, c.target, w.session[i].silent,
                                             delegated_parents(w.session[i].parents, SessionName))} })
             : c \in {call_delegate(ms, [w EXCEPT !.session[i].last_result = PyNone], i, _input[1],
                                    quiet)} })
      ELSE Only({ Routed(Put(w, i, o.st), i, FALSE, StateIn(w, i), o)
                  : o \in {run_args(ms, StateIn(w, i), _input)} })

RECURSIVE Reach(_, _, _)
\* the instances reached from a set through the memoized sub-sessions
Reach(w, from, n) ==
    IF n = 0 THEN from
    ELSE Reach(w, from \cup { p[2] : p \in UNION { w.cache[i] : i \in from } }, n - 1)

\* an instance nothing refers to any more is gone
Collect(w, roots) ==
    [built |-> Reach(w, roots, Cardinality(Pool)),
     settings |-> [j \in Pool |-> IF j \in Reach(w, roots, Cardinality(Pool)) THEN w.settings[j] ELSE <<>>],
     field |-> [j \in Pool |-> IF j \in Reach(w, roots, Cardinality(Pool)) THEN w.field[j] ELSE InitField],
     session |-> [j \in Pool |-> IF j \in Reach(w, roots, Cardinality(Pool))
                                   THEN w.session[j] ELSE NewSession(FALSE)],
     cache |-> [j \in Pool |-> IF j \in Reach(w, roots, Cardinality(Pool)) THEN w.cache[j] ELSE {}]]

\* the first token of the line that does not name a Delegate, "" when all do
RECURSIVE Command(_, _)
Command(ms, _input) ==
    IF _input = <<>> THEN ""
    ELSE IF _input[1] \in DelegateNames(ms) THEN Command(ms, Tail(_input))
    ELSE _input[1]

\* the instances built by the program itself
Hosts == {1}

\* the effect of cli_session.run(*args) on a line whose first token names a
\* Delegate, with silent as the silence flag of the host during the call and
\* restored as the flag afterwards
RunDelegated(i, _input, op, silent, restored) ==
    /\ i \in built
    /\ _input # <<>>
    /\ _input[1] \in DelegateNames(methods)
    /\ Command(methods, _input) \notin {""} \cup CMD_READ
    /\ \E r \in {run_line(methods, [World EXCEPT !.session[i].silent = silent], i, _input,
                          verbosity = "None")} :
       \E w \in {Collect([r.w EXCEPT !.session[i].silent = restored], Hosts)} :
           /\ built' = w.built
           /\ settings' = w.settings
           /\ field' = w.field
           /\ session' = w.session
           /\ cache' = w.cache
           /\ last' = [NoLast EXCEPT !.op = op, !.inst = i, !.input = _input, !.name = r.o.name,
                                     !.pos = r.o.pos, !.kw = r.o.kw, !.raised = r.o.raised,
                                     !.ret = IF r.o.raised = "" THEN w.session[i].last_result
                                             ELSE PyNone,
                                     !.finish = r.o.finish, !.reported = r.o.reported,
                                     !.trace = r.o.trace, !.target = r.inst, !.fresh = r.fresh,
                                     !.before = r.before, !.silent = silent,
                                     !.hops = r.o.hops]
    /\ UNCHANGED <<cli, methods, decls, verbosity>>

\* instance.CLI.run(*args) and instance.CLI.execute(*args) on such a line
RunDelegate(i, _input) == RunDelegated(i, _input, "Run", session[i].silent, session[i].silent)

ExecuteDelegate(i, _input) == RunDelegated(i, _input, "Execute", TRUE, session[i].silent)

\* instance.name() for a Delegate
CallDelegate(i, name) ==
    /\ i \in built
    /\ name \in DelegateNames(methods)
    /\ \E y \in {call_delegate(methods, World, i, name, verbosity = "None")} :
       \E w \in {Collect(y.w, Hosts)} :
           /\ built' = w.built
           /\ settings' = w.settings
           /\ field' = w.field
           /\ session' = w.session
           /\ cache' = w.cache
           /\ last' = [NoLast EXCEPT !.op = "CallDelegate", !.inst = i, !.name = name,
                                     !.raised = y.raised, !.target = y.target, !.fresh = y.fresh]
    /\ UNCHANGED <<cli, methods, decls, verbosity>>

\* the Tester class of Test_Delegate with the Delegates of Test_Compilation:
\* a class whose Delegates take no parameter, and one whose Delegate takes one
TesterDelegates(valid) ==
    IF valid
      THEN << Decl(29, "Delegate", DelegateAttributes(TRUE)),
              Decl(30, "Delegate", DelegateAttributes(TRUE)),
              Decl(31, "Delegate", DelegateAttributes(FALSE)),
              Decl(33, "Delegate", DelegateAttributes(TRUE)),
              Decl(14, "Setting", SettingAttributes(PyStr("init"), TRUE)),
              Decl(19, "Operation", NoAttributes) >>
      ELSE << Decl(32, "Delegate", DelegateAttributes(TRUE)),
              Decl(19, "Operation", NoAttributes) >>

\* the state before any instance exists, over the pool
StartPool(ms, n, v) ==
    /\ methods = ms
    /\ decls = n
    /\ verbosity = v
    /\ built = {}
    /\ settings = [i \in Pool |-> <<>>]
    /\ field = [i \in Pool |-> InitField]
    /\ session = [i \in Pool |-> NewSession(FALSE)]
    /\ cache = [i \in Pool |-> {}]
    /\ cli = NewProgram
    /\ last = NoLast

\* either class is declared, with a verbosity that silences the sessions or not
InitDelegate ==
    \E valid \in BOOLEAN : \E v \in {"None", "INFO"} :
        StartPool(Declared(<<>>, TesterDelegates(valid)), Len(TesterDelegates(valid)), v)

\* the commands given after the Delegate tokens
DelegatedCommands ==
    { <<"oper1">>, <<".setting", "set_value", "x">> }

\* the Delegate tokens in front of them, at most MaxHops: a Delegate before or
\* after hops to the host itself, and hops to discarded instances only
Hops ==
    UNION { { [k \in 1..m |-> IF k = m THEN d ELSE "del_self"],
              [k \in 1..m |-> IF k = 1 THEN d ELSE "del_self"],
              [k \in 1..m |-> "del_discard"] }
            : d \in {"del_self", "del_new", "del_discard"}, m \in 1..MaxHops }

DelegateInputs ==
    { h \o c : h \in Hops, c \in DelegatedCommands }
    \cup { <<"del_none", "oper1">>, <<"delegate", "oper1">> }

ExecuteDelegateInputs ==
    { <<"del_new", "oper1">>, <<"del_new", ".setting", "set_value", "x">> }

NextDelegate ==
    \/ Construct(1)
    \/ \E _input \in DelegatedCommands : Run(1, _input)
    \/ \E _input \in DelegateInputs : RunDelegate(1, _input)
    \/ \E _input \in ExecuteDelegateInputs : ExecuteDelegate(1, _input)
    \/ \E _input \in DelegatedCommands : Execute(1, _input)
    \/ \E name \in {"del_self", "del_new", "del_discard", "del_none"} : CallDelegate(1, name)

SpecDelegate == InitDelegate /\ [][NextDelegate]_vars

(***************************************************************************)
(* The interactive loop, cli_session.__shell without arguments: the lines  *)
(* typed at the prompt are given as a list; after the last one the prompt  *)
(* raises EOFError.                                                        *)
(***************************************************************************)
MaxLines == 2

\* the loop before its first line: lines taken, lines that raised, errors
\* reported, bodies run, the result of the last command that ran without
\* error, how the loop ended and the exception that left it
NoLoop == [taken |-> 0, failed |-> 0, errors |-> 0, trace |-> <<>>, good |-> PyNone,
           ended |-> "", raised |-> "", st |-> <<>>]

RECURSIVE shell(_, _, _, _, _, _)
\* the while loop of __shell: EOFError breaks; __runArgs on the line (an empty
\* line does nothing); an exception is reported and the loop goes on, or ends
\* when delegated, if the session is not silent, and is raised again if it is;
\* a line that returns True ends the loop
shell(ms, st, lines, silent, delegated, acc) ==
    IF acc.taken = Len(lines)
      THEN [acc EXCEPT !.ended = "eof", !.st = st]
      ELSE Only({
             Only({ IF o.raised # ""
                      THEN IF silent
                             THEN [acc1 EXCEPT !.ended = "raised", !.raised = o.raised, !.st = o.st]
                           ELSE IF delegated
                             THEN [acc1 EXCEPT !.ended = "error", !.st = o.st]
                           ELSE shell(ms, o.st, lines, silent, delegated, acc1)
                    ELSE IF o.finish
                      THEN [acc1 EXCEPT !.ended = "quit", !.st = o.st]
                    ELSE shell(ms, o.st, lines, silent, delegated, acc1)
                    : acc1 \in {[acc EXCEPT
                                   !.taken = @ + 1,
                                   !.failed = @ + (IF o.raised # "" THEN 1 ELSE 0),
                                   !.errors = @ + (IF o.reported \/ (o.raised # "" /\ ~silent)
                                                     THEN 1 ELSE 0),
                                   !.trace = @ \o o.trace,
                                   !.good = IF o.raised = "" /\ o.name # "" /\ ~o.reported
                                              THEN o.st.last_result ELSE @]} })
             : o \in {IF lines[acc.taken + 1] = <<>>
                        THEN Outcome(FALSE, "", FALSE, <<>>, st)
                        ELSE run_args(ms, st, lines[acc.taken + 1])} })

\* instance.CLI.run() without arguments: the loop of the session itself; run
\* returns nothing
Shell(i, lines) ==
    /\ i \in built
    /\ \E r \in {shell(methods, StateOf(i), lines, session[i].silent, session[i].isFile, NoLoop)} :
           /\ settings' = [settings EXCEPT ![i] = r.st.settings]
           /\ field' = [field EXCEPT ![i] = r.st.field]
           /\ session' = [session EXCEPT ![i].isFile = r.st.isFile,
                                         ![i].last_result = r.st.last_result]
           /\ last' = [NoLast EXCEPT !.op = "Shell", !.inst = i, !.target = i, !.lines = lines,
                                     !.raised = r.raised, !.ret = PyNone,
                                     !.silent = session[i].silent,
                                     !.loop = [r EXCEPT !.st = <<>>]]
    /\ UNCHANGED <<cli, methods, decls, verbosity, built, cache>>

\* instance.CLI.run(name) for a Delegate and nothing after it: __runArgs calls
\* the Delegate and _delegate runs the loop of the sub-session with the
\* silence flag of the host; run returns the host's _last_result
ShellDelegated(i, name, lines) ==
    /\ i \in built
    /\ name \in DelegateNames(methods)
    /\ \E c \in {call_delegate(methods, [World EXCEPT !.session[i].last_result = PyNone], i, name,
                               verbosity = "None")} :
       \E r \in {IF c.raised # ""
                   THEN [NoLoop EXCEPT !.ended = "raised", !.raised = c.raised]
                   ELSE shell(methods, StateIn(c.w, c.target), lines, session[i].silent, TRUE, NoLoop)} :
       \E w \in {Collect(IF c.raised # "" THEN c.w ELSE Put(c.w, c.target, r.st), Hosts)} :
           /\ built' = w.built
           /\ settings' = w.settings
           /\ field' = w.field
           /\ session' = w.session
           /\ cache' = w.cache
           /\ last' = [NoLast EXCEPT !.op = "ShellDelegated", !.inst = i, !.input = <<name>>,
                                     !.target = c.target, !.fresh = c.fresh, !.lines = lines,
                                     !.raised = r.raised,
                                     !.ret = IF r.raised = "" THEN w.session[i].last_result
                                             ELSE PyNone,
                                     !.silent = session[i].silent,
                                     !.loop = [r EXCEPT !.st = <<>>]]
    /\ UNCHANGED <<cli, methods, decls, verbosity>>

\* the lines typed: a command, a command without its argument, a Setting
\* call and a quit token
TypedLines == { <<"oper1", "a">>, <<"oper1">>, <<".setting", "set_value", "x">>, <<"q">> }

ShellInputs == UNION { [1..m -> TypedLines] : m \in 0..MaxLines }

NextShell ==
    \/ Construct(1)
    \/ \E lines \in ShellInputs : Shell(1, lines)
    \/ \E name \in {"del_self", "del_new"} : \E lines \in ShellInputs : ShellDelegated(1, name, lines)

SpecShell == InitDelegate /\ [][NextShell]_vars

(***************************************************************************)
(* The live validator of the prompt (_cli_prompt.py): StatusBar._validate  *)
(* on the document typed so far.  A document is the tokens shlex.split     *)
(* gives for it and how it ends: "" after a complete token, " " after a    *)
(* separator, "'" inside a quotation that is still open (the last token is *)
(* then the part typed of it).  A token "" is an empty quotation.          *)
(***************************************************************************)
MaxTyped == 3

Document(toks, end) == [toks |-> toks, end |-> end]

MissingQuotation == "Missing closing quotation"

ReadOneFile == "Reading from a file accepts only 1 file."

TooManyInputs == "Too many inputs for operation"

KeyValueFormat == "must be in the format [key]=[value]"

NotHelp(part) == part \notin CMD_HELP

\* extract_details: the first word, the parts without the help flags (with an
\* empty part when the cursor follows a separator), the last word, and whether
\* a quotation is open
extract_details(doc) ==
    Only({ [keyword |-> IF raw = <<>> THEN "" ELSE raw[1],
            input |-> SelectSeq(raw, NotHelp),
            word |-> IF raw = <<>> THEN "" ELSE raw[Len(raw)],
            quote |-> doc.end = "'"]
           : raw \in {IF doc.end = " " THEN Append(doc.toks, "") ELSE doc.toks} })

\* an index that counts the empty part in progress as an argument
idx_test_strict(_input, idx) == idx

\* idx_test of _validate: the index of the current word, not counting an empty last part
idx_test(_input, idx) ==
    IF _input[Len(_input)] = "" THEN idx - 1 ELSE idx

\* a length check that counts self among the parameters to fill
too_many_with_self(ins, _input, idx) ==
    /\ IsNone(ins.varargs) /\ IsNone(ins.varkw)
    /\ idx_test(_input, idx) > Len(ins.args)

\* the length check of _validate, made only without *args and **kwargs
too_many(ins, _input, idx) ==
    /\ IsNone(ins.varargs) /\ IsNone(ins.varkw)
    /\ idx_test(_input, idx) > Len(ins.args) - 1

\* validate_extras: with **kwargs only, a part must be key=value
validate_extras(arg, varargs, varkw) ==
    IF IsNone(varargs) /\ ~IsNone(varkw) /\ Len(Split(arg)) # 2 THEN KeyValueFormat ELSE ""

\* the validator applied to the i-th part after the command (from 0): the type
\* of its parameter, or validate_extras past the fixed parameters
validate_part(ins, i, part) ==
    LET variadic == ~IsNone(ins.varargs) \/ ~IsNone(ins.varkw)
        n == Len(ins.args) + (IF variadic THEN 1 ELSE 0)
        j == IF variadic /\ n - 2 < i THEN n - 2 ELSE i
    IN  IF j + 1 < n /\ part # ""
          THEN IF j + 1 < Len(ins.args)
                 THEN CoerceError(ins.types[j + 2], part)
                 ELSE validate_extras(part, ins.varargs, ins.varkw)
          ELSE ""

\* the message of the first validator that raises
FirstError(messages) ==
    IF \A k \in 1..Len(messages) : messages[k] = "" THEN ""
    ELSE messages[CHOOSE k \in 1..Len(messages) :
                     messages[k] # "" /\ \A j \in 1..(k - 1) : messages[j] = ""]

\* _validate for the command the line names
validate_method(ins, _input, idx) ==
    IF too_many(ins, _input, idx) THEN TooManyInputs
    ELSE FirstError([k \in 1..(Len(_input) - 1) |-> validate_part(ins, k - 1, _input[k + 1])])

\* StatusBar._validate: the message of the ValidationError raised, "" for none
_validate(ms, doc) ==
    IF doc.end = "'" THEN MissingQuotation
    ELSE Only({ IF d.keyword \in CMD_READ /\ Len(d.input) > 2 /\ ~(Len(d.input) = 3 /\ d.word = "")
                  THEN ReadOneFile
                ELSE Only({ IF \E k \in 1..Len(ms) : ms[k].name = c.keyword /\ ms[k].execution # 0
                              THEN validate_method(
                                     add_method_inspection(Functions[ms[IndexOf(ms, c.keyword)].execution].spec),
                                     c.input, c.idx)
                              ELSE ""
                            : c \in { IF d.keyword \in CMD_SETTING
                                        THEN [keyword |-> IF Len(d.input) > 1 THEN d.input[2] ELSE "",
                                              input |-> Tail(d.input), idx |-> Len(d.input) - 2]
                                        ELSE [keyword |-> d.keyword, input |-> d.input,
                                              idx |-> Len(d.input) - 1] } })
                : d \in {extract_details(doc)} })

\* instance.CLI._validate(line): the validator of the session on a document
Validate(i, doc) ==
    /\ i \in built
    /\ \E message \in {_validate(methods, doc)} :
          last' = [NoLast EXCEPT !.op = "Validate", !.inst = i, !.input = doc.toks,
                                 !.end = doc.end, !.message = message,
                                 !.raised = IF message = "" THEN "" ELSE "ValidationError"]
    /\ UNCHANGED <<cli, methods, decls, verbosity, built, settings, field, session, cache>>

\* the documents typed: a command with no, one or two fixed parameters, a typed
\* one, one with *args and **kwargs, one with **kwargs only, a Setting behind
\* the settings token, and a file to read
ValidateInputs ==
    { Document(toks, end) :
        toks \in Lines({"oper1", "oper2"}, {"0", "-h", ""}, MaxTyped)
                 \cup Lines({"oper0", "oper_all"}, {"0"}, MaxTyped)
                 \cup Lines({"oper_type", "oper_kwargs"}, {"a", "a=1"}, MaxTyped)
                 \cup { <<".setting">> \o t : t \in Lines({"set_dict"}, {"11", "0"}, MaxTyped - 1) }
                 \cup Lines({".r"}, {"f"}, MaxTyped)
                 \cup {<<>>},
        end \in {"", " ", "'"} }

NextValidate ==
    \/ Construct(1)
    \/ \E doc \in ValidateInputs : Validate(1, doc)

SpecValidate == InitResolve /\ [][NextValidate]_vars

(***************************************************************************)
(* Properties of the declaration phase.                                    *)
(***************************************************************************)
ExecutionDecorators == {"Operation", "Setting", "Delegate"}

\* C1: a declaration of an execution (Operation, Setting or Delegate) for a
\* name that already has an execution raises CompilationException at that
\* declaration, whatever the two kinds are, and the execution registered
\* first stays the execution of the name; no instance is needed for this.
C1_DuplicateExecutionRejected ==
    [][ (/\ decls' = decls + 1
         /\ last'.op \in ExecutionDecorators
         /\ HasExecution(methods, last'.name))
        => /\ last'.raised = "CompilationException"
           /\ methods'[IndexOf(methods', last'.name)].execution
                = methods[IndexOf(methods, last'.name)].execution
           /\ methods'[IndexOf(methods', last'.name)].type
                = methods[IndexOf(methods, last'.name)].type ]_vars

\* C1 witness: a second execution was just rejected while no instance exists
C1_Witness ==
    /\ last.op \in ExecutionDecorators
    /\ last.raised = "CompilationException"
    /\ built = {}
    /\ HasExecution(methods, last.name)
    /\ methods[IndexOf(methods, last.name)].type # last.op

\* the number of parameters that carry a default
DefaultCount(spec) == IF IsNone(spec.defaults) THEN 0 ELSE Len(spec.defaults[1])

\* two signatures differ in the positional names, in which parameters carry
\* defaults, or in the presence or the name of *args or **kwargs
SignaturesDiffer(s1, s2) ==
    \/ s1.args # s2.args
    \/ DefaultCount(s1) # DefaultCount(s2)
    \/ s1.varargs # s2.varargs
    \/ s1.varkw # s2.varkw

\* some validation of the registry differs from the execution it validates
SomeValidationDiffers(ms) ==
    \E k \in 1..Len(ms) : \E v \in 1..Len(ms[k].validations) :
        /\ ms[k].execution # 0
        /\ SignaturesDiffer(Functions[ms[k].execution].spec, Functions[ms[k].validations[v]].spec)

\* every command has an execution and every validation has the very signature
\* of its execution (and no Delegate declares a parameter)
AllValidationsIdentical(ms) ==
    \A k \in 1..Len(ms) :
        /\ ms[k].execution # 0
        /\ \A v \in 1..Len(ms[k].validations) :
              Functions[ms[k].validations[v]].spec = Functions[ms[k].execution].spec
        /\ check_delegate(ms[k]) = ""

\* C2: declaring a validation never fails, whatever its signature; constructing
\* an instance fails with InitializationException when some validation differs
\* from its execution in the positional names, the parameters with defaults,
\* or the presence or name of *args or **kwargs, whichever side carries the
\* difference; when every validation has the signature of its execution the
\* instance is constructed.
C2_SignatureMismatchFailsConstruction ==
    /\ last.op = "Validation" => last.raised = ""
    /\ (last.op = "Construct" /\ SomeValidationDiffers(methods))
          => (last.raised = "InitializationException" /\ last.inst \notin built)
    /\ (last.op = "Construct" /\ AllValidationsIdentical(methods))
          => (last.raised = "" /\ last.inst \in built)

\* C2 witness: construction just failed for a registry whose only defect is
\* a validation with *args that its execution does not have
C2_Witness ==
    /\ last.op = "Construct"
    /\ last.raised = "InitializationException"
    /\ \E k \in 1..Len(methods) :
          /\ methods[k].execution # 0
          /\ methods[k].validations # <<>>
          /\ IsNone(Functions[methods[k].execution].spec.varargs)
          /\ ~IsNone(Functions[methods[k].validations[1]].spec.varargs)

(***************************************************************************)
(* Properties of the compiled commands.                                    *)
(***************************************************************************)
MethodOf(ms, name) == ms[IndexOf(ms, name)]

\* the step invoked a compiled command: some body of it ran
Invoked(l) == l.op \in {"Call", "Run", "Execute"} /\ l.trace # <<>>

\* the invoked command returned
Successful(l) == Invoked(l) /\ l.raised = "" /\ ~l.reported

\* the positions of the validations that raise for these arguments
Raising(validations, fld, pos, kw) ==
    { k \in 1..Len(validations) : Body(validations[k], fld, pos, kw).raised }

Least(S) == CHOOSE k \in S : \A j \in S : k <= j

\* C3: invoking a compiled command runs its validations in registration
\* order, each on the arguments of the call, and then the execution body; the
\* first validation that raises ends the call: nothing runs after it and a
\* direct caller gets its exception.
C3_ValidationsInOrderBeforeExecution ==
    [][ Invoked(last') =>
          LET m == MethodOf(methods, last'.name)
              vals == m.validations
              t == last'.trace
              raising == Raising(vals, field[last'.inst], last'.pos, last'.kw)
              n == IF raising = {} THEN Len(vals) ELSE Least(raising)
          IN  /\ Len(t) = IF raising = {} THEN n + 1 ELSE n
              /\ \A k \in 1..n : t[k] = Ran("validation", vals[k], last'.pos, last'.kw)
              /\ raising = {} => t[n + 1] = Ran("execution", m.execution, last'.pos, last'.kw)
              /\ (raising # {} /\ last'.op = "Call") => last'.raised = "Exception"
              /\ (raising = {} /\ last'.op = "Call") => last'.raised = "" ]_vars

\* a direct call in which the first validation passed and the second raised
C3_Witness ==
    /\ last.op = "Call"
    /\ last.name = "set_value"
    /\ Len(MethodOf(methods, "set_value").validations) = 2
    /\ Len(last.trace) = 2
    /\ last.raised = "Exception"

\* C4: when a validation of the invoked command raises, the settings and the
\* fields of the instance stay as they were; a direct call raises the
\* exception, a run or execute reports it, returns None and leaves the
\* session open.
C4_ValidationFailureHasNoEffect ==
    [][ (/\ Invoked(last')
         /\ Raising(MethodOf(methods, last'.name).validations, field[last'.inst],
                    last'.pos, last'.kw) # {})
        => /\ settings' = settings
           /\ field' = field
           /\ last'.op = "Call" => last'.raised = "Exception"
           /\ last'.op \in {"Run", "Execute"} =>
                 /\ last'.raised = ""
                 /\ last'.reported
                 /\ last'.ret = PyNone
                 /\ session'[last'.inst].last_result = PyNone
                 /\ ~last'.finish
                 /\ session'[last'.inst].silent = session[last'.inst].silent
                 /\ built' = built ]_vars

\* a run of the Setting that a validation blocked, on an instance whose
\* Setting had been changed before
C4_Witness ==
    /\ last.op = "Run"
    /\ last.name = "set_value"
    /\ last.reported
    /\ last.pos = <<PyStr("bad")>>
    /\ settings[last.inst]["set_value"] = PyStr("X")

\* C5: a successful call of a Setting whose updates_value is false returns
\* what the execution body returns and leaves the stored value as it was.
C5_ConstantSettingKeepsStoredValue ==
    [][ (/\ Successful(last')
         /\ MethodOf(methods, last'.name).type = "Setting"
         /\ ~MethodOf(methods, last'.name).attributes.updates_value)
        => /\ last'.ret = Body(MethodOf(methods, last'.name).execution, field[last'.inst],
                               last'.pos, last'.kw).ret
           /\ settings'[last'.inst][last'.name] = settings[last'.inst][last'.name] ]_vars

\* a run of the constant Setting that returned a value other than the stored one
C5_Witness ==
    /\ last.op \in {"Run", "Execute"}
    /\ Successful(last)
    /\ last.name = "set_value"
    /\ ~MethodOf(methods, "set_value").attributes.updates_value
    /\ last.ret = PyStr("X")
    /\ settings[last.inst]["set_value"] = PyStr("init")

\* C6: construction stores the initial_value of every Setting; a successful
\* call of a Setting whose updates_value is true stores the value it returned;
\* no other step changes a stored value.
C6_StoredValueFollowsSuccessfulCalls ==
    [][ /\ (last'.op = "Construct" /\ last'.raised = "")
           => \A n \in SettingNames(methods) :
                 settings'[last'.inst][n] = MethodOf(methods, n).attributes.initial_value
        /\ (/\ Successful(last')
            /\ MethodOf(methods, last'.name).type = "Setting"
            /\ MethodOf(methods, last'.name).attributes.updates_value)
           => settings'[last'.inst][last'.name] = last'.ret
        /\ \A i \in built : \A n \in DOMAIN settings[i] :
              settings'[i][n] # settings[i][n]
              => /\ Successful(last')
                 /\ last'.inst = i
                 /\ last'.name = n
                 /\ MethodOf(methods, n).attributes.updates_value ]_vars

\* a successful call stored its result, which is not the argument it was given
C6_Witness ==
    /\ Successful(last)
    /\ last.name = "set_value"
    /\ last.pos = <<PyStr("x")>>
    /\ last.ret = PyStr("X")
    /\ settings[last.inst]["set_value"] = PyStr("X")

\* C7: every instance starts with the initial values of the one registry, and
\* a step on one instance leaves the stored values of the other as they were.
C7_InstancesAreIsolated ==
    [][ /\ methods' = methods
        /\ (last'.op = "Construct" /\ last'.raised = "")
           => settings'[last'.inst] = initial_settings(methods)
        /\ \A j \in Instances : j # last'.inst => settings'[j] = settings[j] ]_vars

\* both instances exist, one has changed its Setting and the other has not
C7_Witness ==
    /\ built = Instances
    /\ Successful(last)
    /\ last.name = "set_value"
    /\ \E i \in Instances : \E j \in Instances :
          /\ settings[i]["set_value"] = PyStr("X")
          /\ settings[j]["set_value"] = PyStr("init")

(***************************************************************************)
(* Properties of the resolution of a line.                                 *)
(***************************************************************************)
\* the tokens of a line after the command it names
ArgTokens(_input) ==
    IF _input[1] \in CMD_SETTING THEN SubSeq(_input, 3, Len(_input)) ELSE Tail(_input)

\* the line names a command of the registry the way its kind is accessed: a
\* Setting after a settings-access token, any other command by its name
Addresses(ms, _input) ==
    /\ Has(ms, Keyword(_input))
    /\ (MethodOf(ms, Keyword(_input)).type = "Setting") <=> (_input[1] \in CMD_SETTING)

\* only required parameters: no default, no *args, no **kwargs
RequiredOnly(spec) == IsNone(spec.defaults) /\ IsNone(spec.varargs) /\ IsNone(spec.varkw)

HelpAsked(toks) == \E j \in 1..Len(toks) : toks[j] \in CMD_HELP

\* every token is one the annotation of its parameter converts
Accepted(spec, toks) ==
    \A j \in 1..Len(toks) :
       j < Len(spec.args) => ~IsNone(Coerce(add_method_inspection(spec).types[j + 1], toks[j]))

\* the line `.setting name`, which reads the Setting
IsQuery(_input) == Len(_input) = 2 /\ _input[1] \in CMD_SETTING

FirstType(spec) == add_method_inspection(spec).types[2]

\* C9: a token given for a parameter with a choice annotation is converted
\* exactly when it is the text of a member; a mapping yields the value stored
\* under that member, a sequence the member; any other token raises "not a
\* valid option", the line fails with InputException and nothing runs.
C9_ChoiceCoercion ==
    [][ (/\ last'.op = "Run"
         /\ Addresses(methods, last'.input)
         /\ Len(ArgTokens(last'.input)) = 1
         /\ Len(SpecOf(methods, Keyword(last'.input)).args) = 2
         /\ FirstType(SpecOf(methods, Keyword(last'.input))).kind \in {"seq", "dict"})
        => LET type == FirstType(SpecOf(methods, Keyword(last'.input)))
               tok == ArgTokens(last'.input)[1]
               matches == { k \in 1..Len(type.options) : Str(type.options[k]) = tok }
           IN  IF matches # {}
                 THEN /\ Invoked(last')
                      /\ last'.raised = ""
                      /\ \E k \in matches :
                            last'.pos = << IF type.kind = "dict" THEN type.values[k]
                                           ELSE type.options[k] >>
                 ELSE /\ CoerceError(type, tok) = "is not a valid option"
                      /\ last'.raised = "InputException"
                      /\ last'.trace = <<>> ]_vars

\* the token 11 given for a mapping resolved to the value stored under 11
C9_Witness ==
    /\ last.op = "Run"
    /\ last.input = <<"oper_dict", "11">>
    /\ last.pos = <<PyStr("eleven")>>
    /\ last.trace # <<>>

\* a token of the form key=value, and a token without '='
IsKeywordToken(e) == Len(Split(e)) = 2

IsPlainToken(e) == Len(Split(e)) = 1 /\ e # ""

RECURSIVE Merges(_, _)
\* the lists that merge two lists, each keeping its order
Merges(p, q) ==
    IF p = <<>> THEN {q}
    ELSE IF q = <<>> THEN {p}
    ELSE { <<Head(p)>> \o m : m \in Merges(Tail(p), q) }
         \cup { <<Head(q)>> \o m : m \in Merges(p, Tail(q)) }

\* the token lists that interleave the plain tokens of toks with its key=value
\* tokens, each kind in its order
Interleavings(toks) == Merges(SelectSeq(toks, IsPlainToken), SelectSeq(toks, IsKeywordToken))

\* the command declares both *args and **kwargs
DeclaresBoth(spec) == ~IsNone(spec.varargs) /\ ~IsNone(spec.varkw)

\* the resolution of the command of _input applied to other tokens gives the
\* arguments that l records
SameResolution(l, i, toks) ==
    \E o \in {run_args(methods, StateOf(i), <<l.input[1]>> \o toks)} :
       o.raised = l.raised /\ o.pos = l.pos /\ o.kw = l.kw

\* the mapping of the key=value tokens in which the last value given for a
\* key stands
KeywordValues(toks) ==
    { <<Split(toks[j])[1], PyStr(Split(toks[j])[2])>> :
         j \in { i \in 1..Len(toks) :
                   /\ IsKeywordToken(toks[i])
                   /\ \A h \in (i + 1)..Len(toks) :
                         ~(IsKeywordToken(toks[h]) /\ Split(toks[h])[1] = Split(toks[i])[1]) } }

\* every interleaving of the tokens after the first n resolves as the line
\* did, and a line that resolved gave the command the first n tokens
\* (converted), then the plain tokens after them in order, and the mapping of
\* the key=value tokens after them
ResolvesAlike(l, n, toks) ==
    \A m \in {IF Len(toks) < n THEN Len(toks) ELSE n} :
       /\ \A u \in Interleavings(SubSeq(toks, m + 1, Len(toks))) :
             SameResolution(l, l.inst, SubSeq(toks, 1, m) \o u)
       /\ l.raised = "" /\ l.name # "" =>
             /\ Len(toks) >= n
             /\ [k \in 1..Len(l.pos) |-> Str(l.pos[k])]
                  = SubSeq(toks, 1, m) \o SelectSeq(SubSeq(toks, m + 1, Len(toks)), IsPlainToken)
             /\ l.kw = KeywordValues(SubSeq(toks, m + 1, Len(toks)))

Delegating(l) ==
    /\ l.op \in {"Run", "Execute"}
    /\ l.input # <<>>
    /\ l.input[1] \in DelegateNames(methods)

\* the Delegate's execution returns Tester()
ReturnsNew(name) == Functions[methods[IndexOf(methods, name)].execution].body = "new"

\* the Delegate was declared with reuse=True
Reuses(name) == methods[IndexOf(methods, name)].attributes.reuse

\* C11: a line `d rest` with one Delegate token d that returns a new instance:
\* with reuse the rest runs in the instance memoized for the host, which is
\* found as the previous delegated call left it (a new one with initial
\* Settings only the first time) and stays memoized; without reuse the rest
\* runs in a new instance with initial Settings that is gone afterwards; in
\* both cases the Settings of the host are as before.
C11_ReuseKeepsSubSession ==
    [][ \A l \in {last'} :
          (/\ Delegating(l)
           /\ ReturnsNew(l.input[1])
           /\ l.input[2] \notin DelegateNames(methods))
          => /\ Reuses(l.input[1]) /\ Cached(World, l.inst, l.input[1]) # 0
                  => /\ l.target = Cached(World, l.inst, l.input[1])
                     /\ ~l.fresh
                     /\ l.before.settings = settings[l.target]
             /\ Reuses(l.input[1]) /\ Cached(World, l.inst, l.input[1]) = 0
                  => /\ l.fresh
                     /\ l.before.settings = initial_settings(methods)
             /\ Reuses(l.input[1])
                  => /\ <<l.input[1], l.target>> \in cache'[l.inst]
                     /\ l.target \in built'
             /\ ~Reuses(l.input[1])
                  => /\ l.fresh
                     /\ l.before.settings = initial_settings(methods)
                     /\ l.target \notin built'
                     /\ \A p \in cache'[l.inst] : p[1] # l.input[1]
             /\ l.target # l.inst
             /\ settings'[l.inst] = settings[l.inst] ]_vars

\* C11 witness: a delegated call found the Setting as an earlier delegated call
\* had left it, while the host's own Setting is at its initial value
C11_Witness ==
    /\ Delegating(last)
    /\ last.input[1] = "del_new"
    /\ ~last.fresh
    /\ last.before.settings["set_value"] = PyStr("X")
    /\ settings[last.inst]["set_value"] = PyStr("init")

RECURSIVE Rest(_, _)
\* the tokens of the line after its Delegate tokens
Rest(ms, _input) ==
    IF _input = <<>> THEN <<>>
    ELSE IF _input[1] \in DelegateNames(ms) THEN Rest(ms, Tail(_input))
    ELSE _input

\* the line gave what running rest in a session in state st gives: the same
\* exception, the same result and the same bodies run, once
AsDirect(l, st, rest) ==
    \E o \in {run_args(methods, st, rest)} :
       /\ l.raised = o.raised
       /\ l.ret = (IF o.raised = "" THEN o.st.last_result ELSE PyNone)
       /\ l.trace = o.trace
       /\ l.name = o.name /\ l.pos = o.pos /\ l.kw = o.kw

\* C12 as stated: a line `d.. rest` whose Delegates yield instances runs rest
\* once in the sub-session they yield and returns what running rest directly
\* on that sub-session returns.
C12_DelegatedLineAsDirect ==
    [][ \A l \in {last'} :
          (/\ Delegating(l)
           /\ \A k \in 1..Len(l.input) :
                 l.input[k] \in DelegateNames(methods)
                    => Functions[methods[IndexOf(methods, l.input[k])].execution].body # "none")
          => AsDirect(l, l.before, Rest(methods, l.input)) ]_vars

\* a delegated Setting call stored its value in the sub-session and left its
\* result there: the host's run returned None
C12_Witness ==
    /\ Delegating(last)
    /\ last.input = <<"del_new", ".setting", "set_value", "x">>
    /\ last.raised = ""
    /\ last.ret = PyNone
    /\ session[last.target].last_result = PyStr("X")
    /\ settings[last.target]["set_value"] = PyStr("X")

\* some Delegate of the class declares a parameter besides self
DelegateWithParameters(ms) ==
    \E k \in 1..Len(ms) :
       ms[k].type = "Delegate" /\ Len(Functions[ms[k].execution].spec.args) > 1

\* C13: a Delegate that declares a parameter besides self makes the construction
\* of an instance raise InitializationException, so no instance exists and no
\* call is made; a Delegate with a valid signature that returns something
\* without a CLI lets the instance be constructed and raises InternalException
\* when it is called, directly or as the first token of a line.
C13_DelegateContractTimes ==
    [][ \A l \in {last'} :
          /\ l.op = "Construct" =>
                IF DelegateWithParameters(methods)
                  THEN l.raised = "InitializationException" /\ built' = {}
                  ELSE l.raised = "" /\ l.inst \in built'
          /\ DelegateWithParameters(methods) => l.op = "Construct"
          /\ l.op = "CallDelegate" =>
                /\ l.inst \in built
                /\ (l.raised = "InternalException"
                      <=> Functions[methods[IndexOf(methods, l.name)].execution].body = "none")
          /\ l.op \in {"Run", "Execute"} /\ l.input # <<>> /\ l.input[1] \in DelegateNames(methods) =>
                /\ l.inst \in built
                /\ Functions[methods[IndexOf(methods, l.input[1])].execution].body = "none"
                      => l.raised = "InternalException" /\ l.trace = <<>>
      ]_vars

\* the instance was constructed and its Delegate returning None was called
C13_Witness ==
    /\ last.op = "CallDelegate"
    /\ last.name = "del_none"
    /\ last.raised = "InternalException"
    /\ last.inst \in built
    /\ ~DelegateWithParameters(methods)

(***************************************************************************)
(* Properties of the live validator, checked under SpecValidate.           *)
(***************************************************************************)
\* the document was validated and its first token is a command with n fixed
\* parameters and no *args or **kwargs
ValidatedFixed(l, n) ==
    /\ l.op = "Validate" /\ l.end # "'" /\ l.input # <<>>
    /\ \E k \in 1..Len(methods) :
          /\ methods[k].name = l.input[1]
          /\ \E spec \in {Functions[methods[k].execution].spec} :
                Len(spec.args) = n + 1 /\ IsNone(spec.varargs) /\ IsNone(spec.varkw)

\* C14 as stated: for a command with one fixed parameter, `oper 0 0` is not
\* flagged as too many inputs and `oper 0 0 ` is.
C14_AsStated ==
    [][ \A l \in {last'} :
          ValidatedFixed(l, 1) /\ Tail(l.input) = <<"0", "0">> =>
              (l.message = TooManyInputs <=> l.end = " ") ]_vars

\* C14: for a command with one fixed parameter and no variadic form, the line
\* `oper 0 0` is flagged as too many inputs with and without a separator after
\* it; the boundary lies one argument earlier: `oper 0` and `oper 0 ` (a
\* separator that starts a second argument) are not flagged.
C14_BoundaryOfOneParameter ==
    [][ \A l \in {last'} :
          ValidatedFixed(l, 1) =>
              /\ Tail(l.input) = <<"0", "0">> => l.message = TooManyInputs
              /\ Tail(l.input) = <<"0">> => l.message = "" ]_vars

\* `oper1 0 0` was validated without a separator after it and flagged
C14_Witness ==
    /\ last.op = "Validate"
    /\ last.input = <<"oper1", "0", "0">>
    /\ last.end = ""
    /\ last.message = TooManyInputs

\* the command line of a validated document whose quotations are closed: the
\* tokens from the command on, behind a settings token if there is one
Typed(l) ==
    IF l.op # "Validate" \/ l.end = "'" \/ l.input = <<>> THEN <<>>
    ELSE IF l.input[1] \in CMD_SETTING THEN Tail(l.input)
    ELSE l.input

\* the line names a command: its signature
Signatures(l) ==
    { Functions[methods[k].execution].spec :
        k \in { j \in 1..Len(methods) : Typed(l) # <<>> /\ methods[j].name = Typed(l)[1] } }

Variadic(spec) == ~IsNone(spec.varargs) \/ ~IsNone(spec.varkw)

\* C15 as stated: without a variadic form, more than n non-empty argument
\* tokens are flagged as too many inputs, n tokens followed by a separator are
\* not; with a variadic form nothing is flagged as too many inputs.
C15_AsStated ==
    [][ \A l \in {last'} : \A spec \in Signatures(l) :
          IF Variadic(spec)
            THEN l.message # TooManyInputs
            ELSE /\ Len(SelectSeq(Tail(Typed(l)), NonEmpty)) > Len(spec.args) - 1
                       => l.message = TooManyInputs
                 /\ Len(Tail(Typed(l))) <= Len(spec.args) - 1
                       => l.message # TooManyInputs ]_vars

\* C15: for a command with n fixed parameters and no variadic form, a line
\* (with its quotations closed) is flagged as too many inputs whenever more
\* than n non-empty argument tokens other than help flags have been typed, and
\* is not flagged when at most n argument tokens other than help flags have
\* been typed, whether or not a separator follows them; for a command with a
\* variadic form the line is never flagged as too many inputs.
C15_TooManyInputs ==
    [][ \A l \in {last'} : \A spec \in Signatures(l) :
          \A typed \in {SelectSeq(Tail(Typed(l)), NotHelp)} :
          IF Variadic(spec)
            THEN l.message # TooManyInputs
            ELSE /\ Len(SelectSeq(typed, NonEmpty)) > Len(spec.args) - 1
                       => l.message = TooManyInputs
                 /\ Len(typed) <= Len(spec.args) - 1
                       => l.message # TooManyInputs ]_vars

\* two arguments and a separator were typed for a command of two parameters:
\* the empty token in progress is not flagged
C15_Witness ==
    /\ last.op = "Validate"
    /\ last.input = <<"oper2", "0", "0">>
    /\ last.end = " "
    /\ last.message = ""

(***************************************************************************)
(* Properties of the lines of a session, checked under SpecRun.            *)
(***************************************************************************)
\* the line is a settings token followed by the name of a Setting of the instance
SettingQuery(l) ==
    /\ l.op \in {"Run", "Execute"}
    /\ Len(l.input) = 2
    /\ l.input[1] \in CMD_SETTING
    /\ l.input[2] \in DOMAIN settings[l.inst]

\* C16 as stated: a line `.setting name` for an existing Setting does not
\* invoke the Setting, leaves its stored value, and the call returns the
\* stored value as its last result.
C16_SettingQueryReturnsValue ==
    [][ \A l \in {last'} :
          SettingQuery(l) =>
              /\ l.raised = "" /\ l.trace = <<>>
              /\ settings'[l.inst] = settings[l.inst]
              /\ l.ret = settings[l.inst][l.input[2]] ]_vars

\* the stored value 'X' was queried: nothing ran, the call returned None
C16_Witness ==
    /\ last.op = "Run"
    /\ last.input = <<".setting", "set_value">>
    /\ last.trace = <<>>
    /\ settings[last.inst]["set_value"] = PyStr("X")
    /\ last.ret = PyNone
    /\ session[last.inst].last_result = PyNone

(***************************************************************************)
(* Properties of the interactive loop, checked under SpecShell.            *)
(***************************************************************************)
\* the loop of a session ran
Looped(l) == l.op \in {"Shell", "ShellDelegated"} /\ l.loop.ended # "" /\ l.loop.taken > 0

\* C17 as stated: the loop ends at a line whose first token is a quit token,
\* and the call returns the result of the most recent command that ran
\* without error before it.
C17_QuitReturnsLastResult ==
    [][ \A l \in {last'} :
          Looped(l) =>
              /\ \A k \in 1..l.loop.taken :
                    l.lines[k][1] \in CMD_END => k = l.loop.taken /\ l.loop.ended = "quit"
              /\ l.loop.ended = "quit" => l.ret = l.loop.good ]_vars

\* a command ran with result ('a',), then the quit token ended the loop and
\* the call returned None
C17_Witness ==
    /\ last.op = "Shell"
    /\ last.lines = << <<"oper1", "a">>, <<"q">> >>
    /\ last.loop.ended = "quit"
    /\ last.loop.good # PyNone
    /\ last.ret = PyNone
    /\ session[last.inst].last_result = PyNone

\* C19 as stated: in the loop a line that fails with an input error is
\* reported and fails alone: nothing is raised out of the loop, every failed
\* line is reported, and the loop ends only at a quit token or after the last
\* line, whether the session is silent or not, delegated or not.
C19_InputErrorFailsOneLine ==
    [][ \A l \in {last'} :
          Looped(l) =>
              /\ l.raised = ""
              /\ l.loop.errors = l.loop.failed
              /\ l.loop.ended \in {"quit", "eof"}
              /\ l.loop.ended = "eof" => l.loop.taken = Len(l.lines)
              /\ l.loop.ended = "quit" => l.lines[l.loop.taken][1] \in CMD_END ]_vars

\* a delegated sub-session that is not silent reported the input error of its
\* first line and ended its loop there: the second line was never read
C19_Witness ==
    /\ last.op = "ShellDelegated"
    /\ ~last.silent
    /\ last.lines = << <<"oper1">>, <<"oper1", "a">> >>
    /\ last.loop.ended = "error"
    /\ last.loop.taken = 1
    /\ last.loop.errors = 1
    /\ last.loop.trace = <<>>

(***************************************************************************)
(* Properties of execute, checked under SpecDelegate.                      *)
(***************************************************************************)
\* C20: execute(args) runs the arguments with the silence flag of the session
\* set, whatever it was before: an exception of a delegated rest escapes as
\* in a silent session instead of being reported.  When the call returns or
\* raises, the flag of the session, and of every sub-session that is kept,
\* is what it was before the call.
C20_ExecuteSilencesAndRestores ==
    [][ \A l \in {last'} :
          l.op = "Execute" =>
              /\ l.silent
              /\ session'[l.inst].silent = session[l.inst].silent
              /\ \A j \in built \cap built' : session'[j].silent = session[j].silent
              /\ l.input[1] \in DelegateNames(methods) =>
                    /\ l.raised = run_args(methods, l.before, Rest(methods, l.input)).raised
                    /\ ~l.reported ]_vars

\* execute on a session that is not silent raised the input error of the
\* delegated rest, and the session is not silent afterwards
C20_Witness ==
    /\ last.op = "Execute"
    /\ last.input = <<"del_new", "oper1">>
    /\ last.raised = "InputException"
    /\ last.silent
    /\ ~session[last.inst].silent
    /\ ~session[last.target].silent

(***************************************************************************)
(* Properties of the rejection of a line, checked under SpecResolve.       *)
(***************************************************************************)
HasHelp(_input) == \E k \in 1..Len(_input) : _input[k] \in CMD_HELP

\* the first token is neither a command of the class nor a reserved token
UnknownCommand(_input) ==
    /\ ~Has(methods, _input[1])
    /\ _input[1] \notin CMD_END \cup CMD_READ \cup CMD_SETTING \cup Comments

\* the line reached the parser: it is no comment, no quit token and no query
\* of a Setting
Parsed(l) ==
    /\ l.input # <<>>
    /\ l.input[1] \notin Comments \cup CMD_END
    /\ ~(Len(l.input) = 2 /\ l.input[1] \in CMD_SETTING /\ l.input[2] \in SettingNames(methods))

\* C18 as stated: a line the parser rejects raises InputException and invokes
\* nothing, except when the rejection is only a request for help: then nothing
\* is raised, nothing is invoked and the line is not finished; a line with
\* another reason to fail, such as an unknown command, raises InputException.
C18_RejectionRaisesUnlessHelp ==
    [][ \A l \in {last'} :
          l.op \in {"Run", "Execute"} /\ Parsed(l) /\ parse_args(methods, l.input).exit =>
              /\ l.trace = <<>> /\ ~l.finish
              /\ IF HasHelp(l.input) /\ ~UnknownCommand(l.input)
                   THEN l.raised = "" /\ l.ret = PyNone
                   ELSE l.raised = "InputException" ]_vars

\* an unknown command followed by a help flag was run: nothing was raised
C18_Witness ==
    /\ last.op = "Run"
    /\ last.input = <<"nope", "-h">>
    /\ last.raised = ""
    /\ ~last.finish
    /\ last.trace = <<>>

(***************************************************************************)
(* Further properties of the declaration phase, checked under Spec.        *)
(***************************************************************************)
\* C30 as stated: a declaration of an execution that is rejected with
\* CompilationException leaves the registry as it was: the same execution,
\* kind, validations and attributes for every name.
C30_RejectedDeclarationChangesNothing ==
    [][ last'.raised = "CompilationException" => methods' = methods ]_vars

\* a Setting declared for the name of an Operation was rejected, and the
\* Operation carries the attributes the Setting decorator recorded
C30_Witness ==
    /\ last.op = "Setting"
    /\ last.raised = "CompilationException"
    /\ \E k \in 1..Len(methods) :
          /\ methods[k].name = last.name
          /\ methods[k].type = "Operation"
          /\ "initial_value" \in methods[k].attributes.keys
          /\ methods[k].attributes.initial_value = PyStr("init")

\* some name of the registry has validations and no execution
Unbound(ms) == \E k \in 1..Len(ms) : ms[k].execution = 0 /\ ms[k].validations # <<>>

\* every name of the registry that has validations has an execution, declared
\* before or after them, whose signature they share
Bound(ms) ==
    /\ ~Unbound(ms)
    /\ \A k \in 1..Len(ms) : \A v \in 1..Len(ms[k].validations) :
          ~SignaturesDiffer(Functions[ms[k].execution].spec, Functions[ms[k].validations[v]].spec)
    /\ \A k \in 1..Len(ms) : check_delegate(ms[k]) = ""

\* C23: a validation declared for a name without an execution is accepted at
\* its declaration; while the name has no execution, constructing an instance
\* raises InitializationException and yields no instance; once an execution of
\* that name is declared, before or after the validation, the construction
\* succeeds.
C23_ValidationNeedsExecution ==
    /\ last.op = "Validation" => last.raised = ""
    /\ last.op = "Construct" /\ Unbound(methods)
          => last.raised = "InitializationException" /\ built = {}
    /\ last.op = "Construct" /\ Bound(methods)
          => last.raised = "" /\ last.inst \in built

\* the construction failed for a registry whose only entry is a validation
C23_Witness ==
    /\ last.op = "Construct"
    /\ last.raised = "InitializationException"
    /\ Len(methods) = 1
    /\ methods[1].execution = 0
    /\ methods[1].validations # <<>>

(***************************************************************************)
(* Properties of annotated signatures, checked under SpecAnnotated.        *)
(***************************************************************************)
\* some validation annotates some parameter otherwise than its execution
\* does, or annotates it where the execution does not, or the reverse
AnnotationsDiffer(ms) ==
    \E k \in 1..Len(ms) : \E v \in 1..Len(ms[k].validations) :
        /\ ms[k].execution # 0
        /\ \E s1 \in {Functions[ms[k].execution].spec} :
           \E s2 \in {Functions[ms[k].validations[v]].spec} :
              /\ s1.args = s2.args
              /\ \E p \in 1..Len(s1.args) :
                    AnnotationOf(s1, s1.args[p]) # AnnotationOf(s2, s2.args[p])

\* C24 as stated: when a validation's annotation of some parameter differs
\* from the execution's annotation of that parameter, constructing an instance
\* raises InitializationException and yields no instance.
C24_AnnotationMismatchFailsConstruction ==
    last.op = "Construct" /\ AnnotationsDiffer(methods)
        => last.raised = "InitializationException" /\ built = {}

\* an instance was constructed although the execution annotates a and the
\* validation annotates b
C24_Witness ==
    /\ last.op = "Construct"
    /\ last.raised = ""
    /\ last.inst \in built
    /\ Len(methods) = 1
    /\ methods[1].execution = 34
    /\ methods[1].validations = <<35>>

(***************************************************************************)
(* Properties of key=value tokens, checked under SpecResolve.              *)
(***************************************************************************)
\* C25 as stated: a key=value token given to a command without **kwargs fails
\* the line with InputException and the command is not invoked, with or
\* without *args; with **kwargs every such token is bound there, the last
\* occurrence of a key winning.
C25_KeywordTokenNeedsVarkw ==
    [][ \A l \in {last'} :
          (/\ l.op = "Run" /\ l.input # <<>> /\ ~HasHelp(l.input)
           /\ Has(methods, l.input[1]) /\ l.input[1] \notin SettingNames(methods)
           /\ \E k \in 2..Len(l.input) : IsKeywordToken(l.input[k]))
          => IF IsNone(SpecOf(methods, l.input[1]).varkw)
               THEN l.raised = "InputException" /\ l.trace = <<>>
               ELSE l.raised = "" /\ l.name # "" =>
                       l.kw = KeywordValues(SelectSeq(Tail(l.input), IsKeywordToken)) ]_vars

\* a command with *args and no **kwargs was invoked with the text a=1 as a
\* positional argument
C25_Witness ==
    /\ last.op = "Run"
    /\ last.input = <<"oper_args", "a=1">>
    /\ last.raised = ""
    /\ last.name = "oper_args"
    /\ last.pos = <<PyStr("a=1")>>
    /\ last.kw = {}

(***************************************************************************)
(* Replay of a file (cli_session.__runArgs, lines 134-155).  A file system *)
(* maps a path to the lines of the file, each line as the token list       *)
(* split_input makes of it.  ran lists the lines handed to runLine in the  *)
(* order they were handed, terminated the paths for which "raised errors   *)
(* and is terminated" was reported.                                        *)
(***************************************************************************)
MaxFileLines == 2

\* filepath = ' '.join(_input[1:]): the token itself when there is one token;
\* no path of the file systems below holds a blank
FilePath(_input) == IF Len(_input) = 2 THEN _input[2] ELSE ""

Replayed(finish, raised, reported, st, ran, terminated) ==
    [finish |-> finish, raised |-> raised, reported |-> reported, st |-> st, ran |-> ran,
     terminated |-> terminated]

\* line k of the file at path; failed: the command of the line raised, or
\* its exception was caught and reported
FileLine(path, k, _input, o) ==
    [path |-> path, k |-> k, input |-> _input,
     failed |-> _input # <<>> /\ _input[1] \notin CMD_READ /\ (o.raised # "" \/ o.reported)]

\* a loop that never leaves the file early
Breaks_never(o) == FALSE

\* if not self.isFile: ... break
Breaks(o) == ~o.st.isFile

RECURSIVE runArgs(_, _, _, _)
RECURSIVE read_lines(_, _, _, _, _, _)

\* the for loop over file.readlines(), from line k on; an exception of
\* runLine leaves the loop
read_lines(ms, st, fs, path, k, acc) ==
    IF k > Len(fs[path]) THEN [acc EXCEPT !.st = st]
    ELSE Only({
           Only({ IF o.raised # ""
                    THEN [seen EXCEPT !.raised = o.raised, !.finish = FALSE]
                  ELSE IF Breaks(o)
                    THEN [seen EXCEPT !.reported = @ \/ ~o.finish,
                                      !.terminated = IF o.finish THEN @ ELSE @ \cup {path}]
                  ELSE read_lines(ms, o.st, fs, path, k + 1, seen)
                  : seen \in {[acc EXCEPT !.finish = o.finish,
                                          !.reported = @ \/ o.reported,
                                          !.st = o.st,
                                          !.ran = @ \o <<FileLine(path, k, fs[path][k], o)>> \o o.ran,
                                          !.terminated = @ \cup o.terminated]} })
           : o \in {runArgs(ms, st, fs, fs[path][k])} })

\* lines 135-155: isFile is set for the replay and cleared in the finally
\* clause; a path that is no file is reported
read_file(ms, st, fs, path) ==
    IF path \notin DOMAIN fs THEN Replayed(FALSE, "", TRUE, st, <<>>, {})
    ELSE Only({ [r EXCEPT !.st.isFile = FALSE]
                : r \in {read_lines(ms, [st EXCEPT !.isFile = TRUE], fs, path, 1,
                                    Replayed(FALSE, "", FALSE, st, <<>>, {}))} })

\* cli_session.__runArgs with the file-read tokens: an empty token list does
\* nothing, a file-read line the parser accepts is replayed, any other line
\* is routed
runArgs(ms, st, fs, _input) ==
    IF _input = <<>> THEN Replayed(FALSE, "", FALSE, st, <<>>, {})
    ELSE IF _input[1] \in CMD_READ /\ ~parse_args(ms, _input).exit
      THEN read_file(ms, [st EXCEPT !.last_result = PyNone], fs, FilePath(_input))
      ELSE Only({ Replayed(o.finish, o.raised, o.reported, o.st, <<>>, {})
                  : o \in {run_args(ms, st, _input)} })

\* instance.CLI.run(".read", path) on the file system fs
Read(i, fs, path) ==
    /\ i \in built
    /\ \E r \in {runArgs(methods, StateOf(i), fs, <<".read", path>>)} :
           /\ settings' = [settings EXCEPT ![i] = r.st.settings]
           /\ field' = [field EXCEPT ![i] = r.st.field]
           /\ session' = [session EXCEPT ![i].isFile = r.st.isFile,
                                         ![i].last_result = r.st.last_result]
           /\ last' = [NoLast EXCEPT !.op = "Read", !.inst = i, !.input = <<".read", path>>,
                                     !.raised = r.raised, !.finish = r.finish,
                                     !.ret = IF r.raised = "" THEN r.st.last_result ELSE PyNone,
                                     !.reported = r.reported, !.files = fs, !.ran = r.ran,
                                     !.terminated = r.terminated]
    /\ UNCHANGED <<cli, methods, decls, verbosity, built, cache>>

\* the lines of the outer file f and of the inner file g: an Operation whose
\* validation raises until the exceptions are silenced, a Setting call whose
\* validation rejects the value, a quit token, an unknown command and the
\* read of g
ReplayLines ==
    { <<"op", "x">>, <<".set", "set_value", "bad">>, <<"q">>, <<"nope">>, <<".read", "g">> }

InnerLines == { <<"op", "x">>, <<"q">> }

FileSystems ==
    { [p \in {"f", "g"} |-> IF p = "f" THEN outer ELSE inner]
      : outer \in UNION { [1..m -> ReplayLines] : m \in 0..MaxFileLines },
        inner \in [1..1 -> InnerLines] }

NextReplay ==
    \/ Construct(1)
    \/ \E fs \in FileSystems : \E path \in (IF fs["f"] = <<>> THEN {"f", "h"} ELSE {"f"}) :
          Read(1, fs, path)
    \/ silence_exception(1)

\* the class of the Setting and the Operation is declared
InitReplay == Start(Declared(<<>>, TesterSettings(TRUE)), Len(TesterSettings(TRUE)), "None")

SpecReplay == InitReplay /\ [][NextReplay]_vars

\* the lines of the file at path that were handed to runLine, in order
RanOf(l, path) == SelectSeq(l.ran, LAMBDA e : e.path = path)

CleanReplay(l, path) ==
    /\ Len(RanOf(l, path)) = Len(l.files[path])
    /\ \A j \in 1..Len(RanOf(l, path)) :
          ~RanOf(l, path)[j].failed /\ RanOf(l, path)[j].input[1] \notin CMD_END

\* C27 as stated: after a line that reads another file which replays without
\* any error, the outer replay goes on with its own next line and is not
\* terminated.
C27_NestedReadsAreIndependent ==
    last.op = "Read" =>
       \A j \in 1..Len(last.ran) :
          \A e \in {last.ran[j]} :
             (/\ e.input[1] \in CMD_READ
              /\ FilePath(e.input) \in DOMAIN last.files
              /\ CleanReplay(last, FilePath(e.input)))
             => /\ e.path \notin last.terminated
                /\ e.k < Len(last.files[e.path]) => Len(RanOf(last, e.path)) > e.k

\* the outer file read g, which replayed its one line without an error, and
\* the outer replay was terminated before its second line
C27_Witness ==
    /\ last.op = "Read"
    /\ last.files.f = << <<".read", "g">>, <<"op", "x">> >>
    /\ last.files.g = << <<"op", "x">> >>
    /\ Len(last.ran) = 2
    /\ last.ran[2].path = "g" /\ ~last.ran[2].failed
    /\ "f" \in last.terminated

\* C29 as stated: a quit token in a replayed file stops the replay of that
\* file at that line.
C29_QuitStopsReplay ==
    last.op = "Read" =>
       \A path \in DOMAIN last.files :
          \A j \in 1..Len(RanOf(last, path)) :
             RanOf(last, path)[j].input[1] \in CMD_END => Len(RanOf(last, path)) = j

\* the line after the quit token ran
C29_Witness ==
    /\ last.op = "Read"
    /\ last.files.f = << <<"q">>, <<"op", "x">> >>
    /\ Len(last.ran) = 2
    /\ last.ran[2].input = <<"op", "x">>
    /\ last.raised = ""
    /\ last.terminated = {}

(***************************************************************************)
(* Properties of the flags of a sub-session, checked under SpecDelegate.   *)
(***************************************************************************)
\* C28: while a delegated line runs the sub-session carries the silence flag
\* of its parent and the parent's chain followed by the parent's name; when
\* the delegation has returned or raised, its silence flag and chain are
\* those it had before the delegation.
C28_SubSessionFlags ==
    [][ \A l \in {last'} :
          /\ \A k \in 1..Len(l.hops) :
                /\ l.hops[k].during.silent = l.hops[k].parent.silent
                /\ l.hops[k].during.parents = l.hops[k].parent.parents \o <<SessionName>>
                /\ l.hops[k].after = l.hops[k].before
          /\ (l.op = "Run" /\ l.hops # <<>> /\ l.hops[1].target \in built')
                => Flags(session'[l.hops[1].target]) = l.hops[1].before ]_vars

\* a line of two hops raised out of a silent host: the second sub-session ran
\* under the chain of two names, and the memoized first one is back to its
\* own flags
C28_Witness ==
    /\ last.op = "Run"
    /\ last.raised = "InputException"
    /\ Len(last.hops) = 2
    /\ last.hops[1].target # last.inst
    /\ last.hops[1].target \in built
    /\ last.hops[2].during.parents = <<SessionName, SessionName>>
    /\ last.hops[2].during.silent
    /\ session[last.hops[1].target].parents = <<>>

(***************************************************************************)
(* Completion (CustomCompleter of _cli_prompt.py, IterableOptions of       *)
(* _cli_parser.py).  A text is compared through its characters.  The       *)
(* documents typed hold no quotation, no comment mark and no file-read     *)
(* token, so the path completions and the colour codes are left out.       *)
(***************************************************************************)
\* the characters of the texts that are typed, offered or declared
Spelling ==
    { <<"", <<>>>>, <<"_", <<"_">>>>, <<"-", <<"-">>>>, <<"1", <<"1">>>>,
      <<"a", <<"a">>>>, <<"A", <<"A">>>>, <<"b", <<"b">>>>,
      <<"aa", <<"a", "a">>>>, <<"ab", <<"a", "b">>>>, <<"bb", <<"b", "b">>>>,
      <<"11", <<"1", "1">>>>, <<"12", <<"1", "2">>>>, <<"22", <<"2", "2">>>>,
      <<"op", <<"o", "p">>>>, <<"oper", <<"o", "p", "e", "r">>>>,
      <<"oper_no_args", <<"o", "p", "e", "r", "_", "n", "o", "_", "a", "r", "g", "s">>>>,
      <<"set11", <<"s", "e", "t", "1", "1">>>>,
      <<".s", <<".", "s">>>>,
      <<".setting", <<".", "s", "e", "t", "t", "i", "n", "g">>>>,
      <<".read", <<".", "r", "e", "a", "d">>>>,
      <<"--help", <<"-", "-", "h", "e", "l", "p">>>> }

Chars(text) == (CHOOSE p \in Spelling : p[1] = text)[2]

\* str.lower, character by character
LowerChar(c) == CASE c = "A" -> "a" [] c = "B" -> "b" [] OTHER -> c

lower(chars) == [k \in 1..Len(chars) |-> LowerChar(chars[k])]

\* str.startswith
startswith(chars, prefix) ==
    Len(prefix) <= Len(chars) /\ SubSeq(chars, 1, Len(prefix)) = prefix

\* [str(o) for o in self.options]
Texts(options) == [k \in 1..Len(options) |-> Str(options[k])]

\* IterableOptions.__complete__
__complete__(options, key) ==
    SelectSeq(Texts(options),
              LAMBDA o : startswith(lower(Chars(o)), lower(Chars(key))))

\* CustomCompleter._get_arg_completions: str has no __complete__, the
\* AttributeError is swallowed
_get_arg_completions(ms, _input, keyword) ==
    Only({ IF Len(_input) - 1 < Len(types) /\ types[Len(_input)].kind \in {"seq", "dict"}
             THEN __complete__(types[Len(_input)].options, _input[Len(_input)])
             ELSE <<>>
           : types \in {add_method_inspection(SpecOf(ms, keyword)).types} })

\* the names of the registry, in the order of methods.keys()
MethodNames(ms) == [k \in 1..Len(ms) |-> ms[k].name]

\* the options get_completions gathers before it filters them
completion_options(ms, d) ==
    IF d.input # <<>> /\ d.keyword \in CMD_SETTING
      THEN IF Len(d.input) = 1 \/ d.input[2] = d.word
             THEN SelectSeq(MethodNames(ms), LAMBDA k : k \in SettingNames(ms))
           ELSE IF Has(ms, d.input[2])
             THEN _get_arg_completions(ms, Tail(d.input), d.input[2])
           ELSE <<>>
    ELSE IF d.input # <<>> /\ d.keyword \in CMD_READ THEN <<>>
    ELSE IF d.keyword = "" \/ d.keyword = d.word
      THEN SelectSeq(MethodNames(ms), LAMBDA k : k \notin SettingNames(ms)) \o <<".setting", ".read">>
    ELSE IF Has(ms, d.keyword) THEN _get_arg_completions(ms, d.input, d.keyword)
    ELSE <<>>

\* CustomCompleter.get_completions: the help flag for a word that starts with
\* a dash, then the options, each kept when it starts with the word
get_completions(ms, doc) ==
    Only({ SelectSeq((IF startswith(Chars(d.word), <<"-">>) THEN <<"--help">> ELSE <<>>)
                       \o completion_options(ms, d),
                     LAMBDA option : startswith(Chars(option), Chars(d.word)))
           : d \in {extract_details(doc)} })

\* instance.CLI._complete(line)
Complete(i, doc) ==
    /\ i \in built
    /\ last' = [NoLast EXCEPT !.op = "Complete", !.inst = i, !.input = doc.toks, !.end = doc.end,
                              !.completions = get_completions(methods, doc)]
    /\ UNCHANGED <<cli, methods, decls, verbosity, built, settings, field, session, cache>>

\* the Tester class of Test_Completer
TesterCompleter ==
    << Decl(39, "Operation", NoAttributes),
       Decl(40, "Operation", NoAttributes),
       Decl(41, "Setting", NoAttributes) >>

InitComplete == Start(Declared(<<>>, TesterCompleter), Len(TesterCompleter), "None")

\* the words typed after a command
CompletionWords == {"_", "a", "A", "aa", "b", "1", "-"}

CompleteInputs ==
    { Document(toks, end) :
        toks \in Lines({"oper", "oper_no_args"}, CompletionWords, MaxTyped - 1)
                 \cup { <<".setting">> \o t : t \in Lines({"set11"}, CompletionWords, MaxTyped - 2) }
                 \cup { <<>>, <<"op">>, <<".s">>, <<".setting">> },
        end \in {"", " "} }

NextComplete ==
    \/ Construct(1)
    \/ \E doc \in CompleteInputs : Complete(1, doc)

SpecComplete == InitComplete /\ [][NextComplete]_vars

\* the candidates for parameter k of a signature and the word typed so far:
\* the members of its choice annotation whose text starts with the word,
\* letter case ignored; none without a choice annotation
Candidates(spec, k, word) ==
    IF IsNone(AnnotationOf(spec, spec.args[k])) THEN <<>>
    ELSE IF AnnotationOf(spec, spec.args[k])[1].kind \notin {"seq", "dict"} THEN <<>>
    ELSE SelectSeq(Texts(AnnotationOf(spec, spec.args[k])[1].options),
                   LAMBDA o : startswith(lower(Chars(o)), lower(Chars(word))))

\* C21 as stated: the candidates returned when an argument is completed are
\* exactly the members of the parameter's choice annotation whose text starts
\* with the partial text, letter case ignored, and none for a parameter
\* without a choice annotation.
C21_ChoiceCandidates ==
    last.op = "Complete" =>
       \A d \in {extract_details(Document(last.input, last.end))} :
          \A toks \in {IF d.keyword \in CMD_SETTING THEN Tail(d.input) ELSE d.input} :
             (/\ Len(toks) >= 2
              /\ Has(methods, toks[1])
              /\ Len(toks) <= Len(SpecOf(methods, toks[1]).args)
              /\ ~startswith(Chars(d.word), <<"-">>))
             => last.completions = Candidates(SpecOf(methods, toks[1]), Len(toks), d.word)

\* the partial text A for a parameter whose members are aa, ab and bb yields
\* no candidate
C21_Witness ==
    /\ last.op = "Complete"
    /\ last.input = <<"oper", "_", "A">>
    /\ last.end = ""
    /\ last.completions = <<>>

(***************************************************************************)
(* CLI.Program (_cli.py lines 189-231): the call checks __linked and hands *)
(* out a class decorator; applying the decorator wraps the class and sets  *)
(* __linked.                                                               *)
(***************************************************************************)
MaxPrograms == 2

Classes == {"A", "B", "C", "D"}

\* cli.Program(...)
Program ==
    /\ ~IsNone(cli.linked) \/ cli.decorators < MaxPrograms
    /\ IF ~IsNone(cli.linked)
         THEN /\ cli' = cli
              /\ last' = [NoLast EXCEPT !.op = "Program", !.raised = "CompilationException"]
         ELSE /\ cli' = [cli EXCEPT !.decorators = @ + 1]
              /\ last' = [NoLast EXCEPT !.op = "Program"]
    /\ UNCHANGED <<methods, decls, verbosity, built, settings, field, session, cache>>

\* a decorator Program returned, applied to the class cls:
\* parent.__linked = cls.__name__; return Wrapper
cli_decorator(cls) ==
    /\ cli.decorators > 0
    /\ cli' = [cli EXCEPT !.linked = Some(cls), !.wrapped = @ \cup {cls}]
    /\ last' = [NoLast EXCEPT !.op = "cli_decorator", !.name = cls]
    /\ UNCHANGED <<methods, decls, verbosity, built, settings, field, session, cache>>

NextProgram ==
    \/ Program
    \/ \E cls \in Classes : cli_decorator(cls)

SpecProgram == Init /\ [][NextProgram]_vars

\* C22 as stated: once a class is wrapped by the CLI object no second class
\* becomes wrapped by it; the attempt fails with CompilationException.
C22_WrapsAtMostOneClass ==
    [][ (cli.wrapped # {} /\ last'.op = "cli_decorator" /\ last'.name \notin cli.wrapped)
          => last'.raised = "CompilationException" /\ cli'.wrapped = cli.wrapped ]_vars

\* two decorators were handed out before either was applied, and both classes
\* are wrapped
C22_Witness ==
    /\ cli.wrapped = {"A", "B"}
    /\ cli.linked = Some("B")
    /\ cli.decorators = 2
    /\ last.op = "cli_decorator"
    /\ last.name = "B"
    /\ last.raised = ""

====
